---------------------------- MODULE Spec2Model ----------------------------
(***************************************************************************)
(* A model of limecc's table builders:                                     *)
(*   - fa.py: epsilon-NFA -> DFA (convert_enfa_to_dfa) and DFA             *)
(*     minimisation (minimize_enfa);                                       *)
(*   - first.py: the FIRST_k table;                                        *)
(*   - lrparser.py: LR(k) state construction and the action table;         *)
(*   - lime_grammar.py: the combination of lexer accept labels (SpecTag),  *)
(*     make_lime_parser and lexparse (SpecLime);                           *)
(*   - lrparser.py: parse (SpecParse);                                     *)
(*   - regex_parser.py: the label algebra (SpecLit), parse_regex and       *)
(*     make_enfa_from_regex (SpecRegex).                                   *)
(*   - first.py under fairness (SpecFirstLive); the example grammars of    *)
(*     lrparser.py, built and parsed (SpecExample); parse with an explicit *)
(*     root (SpecRootParse);                                               *)
(*   - regex_parser.py: make_dfa_from_literal, minimised (SpecLiteral);    *)
(*   - lime_grammar.py: the inline tokens of LimeGrammar (SpecInline) and  *)
(*     DfaEngine (SpecEngine).                                             *)
(* Each builder is a specification of its own (SpecFA, SpecFirst, SpecLR,  *)
(* SpecTag, ...) over its own variables; the variables of the other        *)
(* builders stay at their idle value.                                      *)
(***************************************************************************)
EXTENDS Integers, Sequences, FiniteSets, TLC

VARIABLES
    \* ---- fa.py ----
    nfaOut,      \* NFA state -> its outedges list (State.outedges)
    nfaAccept,   \* NFA state -> accept label, NoAccept for None (State.accept)
    nfaInit,     \* Automaton.initial of the input automaton
    pc,          \* position in minimize_enfa
    dfaOut,      \* DFA state (the frozenset of NFA states, inv_state_map) -> outedges
    dfaAccept,   \* DFA state -> accept label, set by the last loop of convert_enfa_to_dfa
    q,           \* work stack of convert_enfa_to_dfa
    processed,   \* the set `processed` of convert_enfa_to_dfa
    partition,   \* the partition of minimize_enfa
    minOut,      \* edges of the minimized automaton: [src, dst, label] over classes
    \* ---- first.py, lrparser.py ----
    g,           \* the grammar given to make_lrparser: a sequence of rules
    k,           \* the lookahead length
    rootArg,     \* the root argument: [given |-> FALSE] is root=None
    pcL,         \* position in _LrParser.__init__
    table,       \* First.table: non-terminal -> set of words
    states,      \* the list `states`; states[i + 1] is the state with index i
    si,          \* the loop index i of the state construction
    todo,        \* the symbols of `parts` the inner loop has not visited yet
    accepting,   \* accepting_state
    lrError,      \* the ActionConflictError raised, if any
    \* ---- lime_grammar.py ----
    tokKinds,    \* g.tokens: the kind of each token, "literal" or "regex"
    discKinds,   \* g.discards: the kind of each discard
    fasTags,     \* the accept tag of each automaton of `fas`
    members,     \* the accepts of the NFA states of one DFA state, in visiting order
    acc,         \* the running value of reduce(precombine, ...)
    pos,         \* how many members reduce has consumed
    pcT,         \* position in make_lime_parser
    tagError,    \* the exception raised while combining, "none" if none
    \* ---- lime_grammar.py: LimeGrammar, the inline tokens of a specification ----
    limeSpec,        \* the rule statements of the specification: their items
    implicit_tokens, \* self._implicit_tokens: token -> id
    pg,              \* the _ParsedGrammar: rules, and tokens once it is set
    rhs_list,        \* the rhs_list of the rule statement being parsed
    \* ---- lime_grammar.py: make_lime_parser and lexparse ----
    gTokens,       \* g.tokens: the literal of each token, token_id - 1 its index
    gDiscards,     \* g.discards: the literal of each discard
    context_lexer, \* g.context_lexer
    fas,           \* the list `fas`: the literal and the token_id of each automaton
    discard_id,    \* p.discard_id
    term_lists,    \* the list `term_lists`
    lexer_id,      \* state.lexer_id of the states the loop has visited, by state index
    lexers,        \* p.lexers: each lexer as the set of the indices of its automata
    pcM,           \* position in make_lime_parser and lexparse
    text,          \* the text given to lexparse
    lexed,         \* the token ids `toks` holds, discards filtered out
    result,        \* how lexparse ended
    \* ---- lime_grammar.py: DfaEngine ----
    engineDfa,     \* self.dfa: the outedges and the accept of each state
    extract,       \* self._extract, the function given to the constructor
    remaining,     \* the variable `s` of tokens: the text not consumed yet
    lastTok,       \* the tuple tokens yielded last
    pcE,           \* position in tokens, or how it ended
    \* ---- lrparser.py: _LrParser.parse ----
    sentence,      \* the tokens the iterator `it` yields
    taken,         \* how many tokens `it` has yielded
    lookaheadBuf,  \* the list `lookahead`
    stack,         \* the list `stack`
    token_counter, \* token_counter
    pcP,           \* position in parse, or how it ended
    errToken,      \* the token of the UnexpectedTokenError raised, if any
    asts,          \* the list `asts`: a token for a shift, a rule's left for a reduction
    reductions,    \* the rules the reducer has been called with, in order
    \* ---- regex_parser.py ----
    litA,          \* the left operand of a label operator
    litB,          \* the right operand
    litOp,         \* the operator applied: "and", "or", "sub"
    litRes,        \* its result
    reInput,       \* the regex given to parse_regex, a sequence of characters
    reAst,         \* what parse_regex returned
    pcR            \* position in the regex pipeline

faVars == <<nfaOut, nfaAccept, nfaInit, pc, dfaOut, dfaAccept, q, processed,
            partition, minOut>>

lrVars == <<g, k, rootArg, pcL, table, states, si, todo, accepting, lrError>>

inlineVars == <<limeSpec, implicit_tokens, pg, rhs_list>>

tagVars == <<tokKinds, discKinds, fasTags, members, acc, pos, pcT, tagError, inlineVars>>

engineVars == <<engineDfa, extract, remaining, lastTok, pcE>>

limeVars == <<gTokens, gDiscards, context_lexer, fas, discard_id, term_lists,
              lexer_id, lexers, pcM, text, lexed, result, engineVars>>

parseVars == <<sentence, taken, lookaheadBuf, stack, token_counter, pcP, errToken,
               asts, reductions>>

regexVars == <<litA, litB, litOp, litRes, reInput, reAst, pcR>>

vars == <<faVars, lrVars, tagVars, limeVars, parseVars, regexVars>>

\* the values the variables of a builder keep while another builder runs
IdleFA ==
    /\ nfaOut = <<>> /\ nfaAccept = <<>> /\ nfaInit = {} /\ pc = "idle"
    /\ dfaOut = <<>> /\ dfaAccept = <<>> /\ q = <<>> /\ processed = {}
    /\ partition = {} /\ minOut = {}

IdleLR ==
    /\ g = <<>> /\ k = 0 /\ rootArg = [given |-> FALSE, syms |-> <<>>] /\ pcL = "idle"
    /\ table = <<>> /\ states = <<>> /\ si = 0 /\ todo = {} /\ accepting = -1
    /\ lrError = [type |-> "none", state |-> -1, item1 |-> -1, item2 |-> -1]

IdleInline ==
    /\ limeSpec = <<>> /\ implicit_tokens = <<>>
    /\ pg = [rules |-> <<>>, has_tokens |-> FALSE, tokens |-> <<>>] /\ rhs_list = <<>>

IdleTag ==
    /\ tokKinds = <<>> /\ discKinds = <<>> /\ fasTags = <<>> /\ members = <<>>
    /\ acc = [token_id |-> -1, prio |-> -1, tokens |-> {}] /\ pos = 0
    /\ pcT = "idle" /\ tagError = "none"
    /\ IdleInline

IdleEngine ==
    /\ engineDfa = <<>> /\ extract = "id" /\ remaining = <<>>
    /\ lastTok = [yielded |-> FALSE] /\ pcE = "idle"

IdleLime ==
    /\ IdleEngine
    /\ gTokens = <<>> /\ gDiscards = <<>> /\ context_lexer = FALSE /\ fas = <<>>
    /\ discard_id = 0 /\ term_lists = <<>> /\ lexer_id = <<>> /\ lexers = <<>>
    /\ pcM = "idle" /\ text = <<>> /\ lexed = <<>> /\ result = "none"

IdleParse ==
    /\ sentence = <<>> /\ taken = 0 /\ lookaheadBuf = <<>> /\ stack = <<>>
    /\ token_counter = 0 /\ pcP = "idle" /\ errToken = "None"
    /\ asts = <<>> /\ reductions = <<>>

IdleRegex ==
    /\ litA = [charset |-> {}, inv |-> FALSE] /\ litB = [charset |-> {}, inv |-> FALSE]
    /\ litOp = "none" /\ litRes = [charset |-> {}, inv |-> FALSE]
    /\ reInput = <<>> /\ reAst = [type |-> "None"] /\ pcR = "idle"

-----------------------------------------------------------------------------
(* Bounds of the model.                                                    *)

NumNfa == 2        \* NFA states 0 .. NumNfa-1
NumChars == 2      \* input characters 1 .. NumChars
NumTags == 2       \* accept labels 1 .. NumTags
MaxEdges == 3      \* connect_to calls on the input automaton
MaxStrLen == 3     \* length of the input strings the automata are compared on
MaxRules == 3      \* rules of the input grammar
MaxRhs == 2        \* symbols on the right of a rule
MaxSymbols == 3    \* symbols on the right of all rules of a grammar
MaxRoot == 1        \* symbols of an explicit root of a parser
MaxFirstRoot == 2   \* symbols of the start rule First is built with
MaxRootedRules == 2 \* rules of a grammar given with an explicit root
MaxK == 1          \* lookahead lengths 0 .. MaxK
MaxTokens == 2      \* tokens of the lexer grammar
MaxDiscards == 2    \* discards of the lexer grammar
MaxMembers == 3     \* NFA states of one DFA state
MaxWord == 2       \* length of the words FIRST_k is compared on

-----------------------------------------------------------------------------
(* Generic helpers.                                                        *)

Range(s) == {s[i] : i \in DOMAIN s}

Min(S) == CHOOSE x \in S : \A y \in S : x <= y

\* all enumeration orders of a finite set (the iteration order of a dict or set)
RECURSIVE Perms(_)
Perms(S) ==
    IF S = {} THEN {<<>>}
    ELSE UNION {{<<x>> \o rest : rest \in Perms(S \ {x})} : x \in S}

\* one enumeration order of a finite set
RECURSIVE SomeOrder(_)
SomeOrder(S) ==
    IF S = {} THEN <<>>
    ELSE LET x == CHOOSE y \in S : TRUE IN <<x>> \o SomeOrder(S \ {x})

MaxPermuted == 6  \* entries of a dict of fa.py that is iterated in every order

\* the iteration orders of a dict of fa.py with the keys S: every order, for
\* a dict of more than MaxPermuted entries one order
OrdersOf(S) == IF Cardinality(S) > MaxPermuted THEN {SomeOrder(S)} ELSE Perms(S)

\* all strings over an alphabet of length at most n
RECURSIVE StringsUpTo(_, _)
StringsUpTo(A, n) ==
    IF n = 0 THEN {<<>>}
    ELSE LET shorter == StringsUpTo(A, n - 1)
         IN shorter \cup {Append(s, c) : s \in {t \in shorter : Len(t) = n - 1}, c \in A}

-----------------------------------------------------------------------------
(* fa.py: states, labels, automata.                                        *)

NfaStates == 0..(NumNfa - 1)
Alphabet == 1..NumChars
NoAccept == 0
Tags == 1..NumTags

\* An edge (target, label) of State.outedges.  eps = TRUE is the label None;
\* any other label is a set of characters with the operators & | - of
\* regex_parser.Lit.
Edge(t, e, l) == [target |-> t, eps |-> e, label |-> l]

\* the edges the input automaton may get: epsilon edges to another state and
\* edges labelled by a non-empty set of characters
EdgePool ==
    {Edge(t, TRUE, {}) : t \in NfaStates}
        \cup {Edge(t, FALSE, l) : t \in NfaStates, l \in (SUBSET Alphabet) \ {{}}}

\* a total order on EdgePool, used only to enumerate each edge list once
RECURSIVE LabelRank(_)
LabelRank(l) == IF l = {} THEN 0
                ELSE LET c == Min(l) IN 2 ^ (c - 1) + LabelRank(l \ {c})
EdgeRank(e) == IF e.eps THEN e.target
               ELSE NumNfa + e.target + NumNfa * LabelRank(e.label)

NumEdges == LET RECURSIVE Sum(_)
                Sum(S) == IF S = {} THEN 0
                          ELSE LET s == CHOOSE s \in S : TRUE
                               IN Len(nfaOut[s]) + Sum(S \ {s})
            IN Sum(DOMAIN nfaOut)

\* _epsilon_closure of convert_enfa_to_dfa
EpsilonClosure(stateSet) ==
    LET RECURSIVE Grow(_)
        Grow(res) ==
            LET more == {e.target : e \in {x \in UNION {Range(nfaOut[s]) : s \in res} : x.eps}}
            IN IF more \subseteq res THEN res ELSE Grow(res \cup more)
    IN Grow(stateSet)

\* convert_enfa_to_dfa, the loop that fills `edges` for the DFA state `stateSet`:
\* the first edge to a target stores its label, every further edge to the same
\* target intersects (edges[target] &= label)
CollectEdges(stateSet) ==
    LET labelled == {e \in UNION {Range(nfaOut[s]) : s \in stateSet} : ~e.eps}
    IN [t \in {e.target : e \in labelled} |->
           LET labels == {e.label : e \in {x \in labelled : x.target = t}}
           IN {c \in UNION labels : \A l \in labels : c \in l}]

\* One pass of the inner `for` of convert_enfa_to_dfa / _get_maximum_charsets:
\* the first key of the iteration seeds the group, every later key whose label
\* meets the running charset joins and narrows it.
RECURSIVE MaxFold(_, _, _, _, _)
MaxFold(m, ord, i, items, charset) ==
    IF i > Len(ord) THEN [items |-> items, charset |-> charset]
    ELSE LET s == charset \cap m[ord[i]]
         IN IF s # {} THEN MaxFold(m, ord, i + 1, items \cup {ord[i]}, s)
            ELSE MaxFold(m, ord, i + 1, items, charset)

\* A faulty variant of GetMaximumCharsets: after a group only its seed key is
\* deleted and the charset is not subtracted from the other entries.
RECURSIVE GetMaximumCharsetsSeedOnly(_, _)
GetMaximumCharsetsSeedOnly(m, ord) ==
    IF ord = <<>> THEN <<>>
    ELSE <<MaxFold(m, ord, 2, {ord[1]}, m[ord[1]])>>
         \o GetMaximumCharsetsSeedOnly(m, SubSeq(ord, 2, Len(ord)))

\* The `while edges:` loop of convert_enfa_to_dfa and _get_maximum_charsets of
\* minimize_enfa: the sequence of (items, charset) groups produced from the map
\* m when the dict is iterated in the order ord.  After each group its charset
\* is subtracted from every entry and the entries left empty are deleted.
RECURSIVE GetMaximumCharsets(_, _)
GetMaximumCharsets(m, ord) ==
    IF ord = <<>> THEN <<>>
    ELSE LET y == MaxFold(m, ord, 2, {ord[1]}, m[ord[1]])
             reduced == [x \in DOMAIN m |-> m[x] \ y.charset]
             IsLeft(x) == reduced[x] # {}
         IN <<y>> \o GetMaximumCharsets(reduced, SelectSeq(ord, IsLeft))

\* the targets of a list of edges that are not yet in `processed`, in the order
\* of their first occurrence (the pushes on q)
RECURSIVE FreshTargets(_, _, _)
FreshTargets(out, i, seen) ==
    IF i > Len(out) THEN <<>>
    ELSE IF out[i].target \in seen THEN FreshTargets(out, i + 1, seen)
    ELSE <<out[i].target>> \o FreshTargets(out, i + 1, seen \cup {out[i].target})

\* accept_combine, by default min
AcceptCombine(lhs, rhs) == IF lhs <= rhs THEN lhs ELSE rhs

\* precombine of convert_enfa_to_dfa
Precombine(lhs, rhs) ==
    IF lhs = NoAccept THEN rhs
    ELSE IF rhs = NoAccept THEN lhs
    ELSE IF lhs = rhs THEN lhs
    ELSE AcceptCombine(lhs, rhs)

\* reduce(precombine, (s.accept for s in inv_state_map[state])).  The set is
\* visited in the order CHOOSE gives; precombine over min is commutative and
\* associative, so every order gives this value.
RECURSIVE ReduceAccept(_)
ReduceAccept(stateSet) ==
    LET s == CHOOSE s \in stateSet : TRUE
    IN IF stateSet = {s} THEN nfaAccept[s]
       ELSE Precombine(ReduceAccept(stateSet \ {s}), nfaAccept[s])

DfaInitial == EpsilonClosure(nfaInit)

-----------------------------------------------------------------------------
(* fa.py: the input automaton and convert_enfa_to_dfa.                     *)

\* State.connect_to on the input automaton.  Each outedges list is built in
\* increasing EdgeRank, so that every set of edges is enumerated once.
Connect(s, e) ==
    /\ pc = "input"
    /\ NumEdges < MaxEdges
    /\ e.eps => e.target # s
    /\ nfaOut[s] # <<>> => EdgeRank(nfaOut[s][Len(nfaOut[s])]) < EdgeRank(e)
    /\ nfaOut' = [nfaOut EXCEPT ![s] = Append(@, e)]
    /\ UNCHANGED <<nfaAccept, nfaInit, pc, dfaOut, dfaAccept, q, processed,
                   partition, minOut, lrVars, tagVars, limeVars, parseVars, regexVars>>

\* minimize_enfa is called: convert_enfa_to_dfa creates the initial DFA state
ConvStart ==
    /\ pc = "input"
    /\ pc' = "convert"
    /\ dfaOut' = [s \in {DfaInitial} |-> <<>>]
    /\ q' = <<DfaInitial>>
    /\ processed' = {DfaInitial}
    /\ UNCHANGED <<nfaOut, nfaAccept, nfaInit, dfaAccept, partition, minOut, lrVars, tagVars, limeVars, parseVars, regexVars>>

\* one iteration of `while q:` of convert_enfa_to_dfa
ConvStep ==
    /\ pc = "convert"
    /\ q # <<>>
    /\ LET current == q[Len(q)]
           edges == CollectEdges(current)
       IN \E ord \in OrdersOf(DOMAIN edges) :
            LET ys == GetMaximumCharsets(edges, ord)
                out == [i \in 1..Len(ys) |->
                           Edge(EpsilonClosure(ys[i].items), FALSE, ys[i].charset)]
                fresh == FreshTargets(out, 1, processed)
            IN /\ dfaOut' = [s \in DOMAIN dfaOut \cup {e.target : e \in Range(out)} |->
                                IF s = current THEN out
                                ELSE IF s \in DOMAIN dfaOut THEN dfaOut[s] ELSE <<>>]
               /\ q' = SubSeq(q, 1, Len(q) - 1) \o fresh
               /\ processed' = processed \cup Range(fresh)
    /\ UNCHANGED <<nfaOut, nfaAccept, nfaInit, pc, dfaAccept, partition, minOut, lrVars, tagVars, limeVars, parseVars, regexVars>>

\* the last loop of convert_enfa_to_dfa: the accept labels of the DFA states
ConvAccept ==
    /\ pc = "convert"
    /\ q = <<>>
    /\ dfaAccept' = [s \in DOMAIN dfaOut |-> ReduceAccept(s)]
    /\ pc' = "partition"
    /\ UNCHANGED <<nfaOut, nfaAccept, nfaInit, dfaOut, q, processed, partition, minOut, lrVars, tagVars, limeVars, parseVars, regexVars>>

-----------------------------------------------------------------------------
(* fa.py: minimize_enfa.                                                   *)

\* the initial partition: the states without accept label (a class that may be
\* empty) and one class per accept label
InitialPartition ==
    {{s \in DOMAIN dfaOut : dfaAccept[s] = NoAccept}}
        \cup {{s \in DOMAIN dfaOut : dfaAccept[s] = a} :
                 a \in {dfaAccept[s] : s \in DOMAIN dfaOut} \ {NoAccept}}

\* _create_partition_map
PartitionMap(state) == CHOOSE c \in partition : state \in c

\* the label of the last edge from state to target: edge_map[(state, target)] =
\* label and target_labels[target] = label overwrite what an earlier edge stored
LastLabel(state, target) ==
    LET out == dfaOut[state]
        last == CHOOSE i \in DOMAIN out :
                    /\ out[i].target = target
                    /\ \A j \in DOMAIN out : out[j].target = target => j <= i
    IN out[last].label

\* edge_map of the refinement loop for one class
EdgeMap(class) ==
    [key \in UNION {{<<s, e.target>> : e \in Range(dfaOut[s])} : s \in class} |->
        LastLabel(key[1], key[2])]

\* the source sets of the refinement of one class: for each group of
\* _get_maximum_charsets and each class a group's targets lie in, the sources
\* of the group's edges into that class (target_map)
SourceSets(ys) ==
    UNION {{{key[1] : key \in {x \in ys[i].items : PartitionMap(x[2]) = part}} :
               part \in {PartitionMap(x[2]) : x \in ys[i].items}} :
           i \in DOMAIN ys}

\* a refinement that splits no class
SplitClassNever(class, ord) == {class}

\* the classes one class splits into: sibling_map[s] keeps the states that lie
\* in exactly the same source sets as s (siblings &= source_set for a source
\* inside the set, siblings -= source_set for a source outside)
SplitClass(class, ord) ==
    LET sets == SourceSets(GetMaximumCharsets(EdgeMap(class), ord))
    IN {{x \in class : \A ss \in sets : (s \in ss) <=> (x \in ss)} : s \in class}

\* new_partition of one round, for every iteration order of the edge_map dicts
RECURSIVE RefineOutcomes(_)
RefineOutcomes(classes) ==
    IF classes = {} THEN {{}}
    ELSE LET c == CHOOSE c \in classes : TRUE
         IN {a \cup b : a \in {SplitClass(c, ord) : ord \in OrdersOf(DOMAIN EdgeMap(c))},
                        b \in RefineOutcomes(classes \ {c})}

\* target_labels of one class when its states are visited in the order cord:
\* the last edge to a target of the last state that has one decides the label
TargetLabels(class, cord) ==
    LET HasEdge(i, t) == \E e \in Range(dfaOut[cord[i]]) : e.target = t
        targets == UNION {{e.target : e \in Range(dfaOut[s])} : s \in class}
    IN [t \in targets |->
           LET last == CHOOSE i \in DOMAIN cord :
                           HasEdge(i, t) /\ \A j \in DOMAIN cord : HasEdge(j, t) => j <= i
           IN LastLabel(cord[last], t)]

\* the out-edges of the new state of one class (target_map), and whether the
\* assertion all(partition_map[tg] == target for tg in targets) held
BuildClass(class, cord, tord) ==
    LET ys == GetMaximumCharsets(TargetLabels(class, cord), tord)
        ClassesOf(i) == {PartitionMap(t) : t \in ys[i].items}
    IN [ok |-> \A i \in DOMAIN ys : Cardinality(ClassesOf(i)) = 1,
        edges |-> {[src |-> class, dst |-> part,
                    label |-> UNION {ys[i].charset : i \in {j \in DOMAIN ys : part \in ClassesOf(j)}}] :
                   part \in UNION {ClassesOf(i) : i \in DOMAIN ys}}]

ClassTargets(class) == UNION {{e.target : e \in Range(dfaOut[s])} : s \in class}

\* the quotient automaton, for every iteration order of the classes' states and
\* of the target_labels dicts
RECURSIVE BuildOutcomes(_)
BuildOutcomes(classes) ==
    IF classes = {} THEN {[ok |-> TRUE, edges |-> {}]}
    ELSE LET c == CHOOSE c \in classes : TRUE
         IN {[ok |-> a.ok /\ b.ok, edges |-> a.edges \cup b.edges] :
                a \in {BuildClass(c, cord, tord) :
                          cord \in OrdersOf(c), tord \in OrdersOf(ClassTargets(c))},
                b \in BuildOutcomes(classes \ {c})}

\* minimize_enfa after convert_enfa_to_dfa returned: the initial partition
MinPartition ==
    /\ pc = "partition"
    /\ partition' = InitialPartition
    /\ pc' = "refine"
    /\ UNCHANGED <<nfaOut, nfaAccept, nfaInit, dfaOut, dfaAccept, q, processed, minOut, lrVars, tagVars, limeVars, parseVars, regexVars>>

\* one round of the `while True:` refinement loop
MinRefine ==
    /\ pc = "refine"
    /\ \E new \in RefineOutcomes(partition) :
          IF new = partition
          THEN pc' = "quotient" /\ UNCHANGED partition
          ELSE partition' = new /\ UNCHANGED pc
    /\ UNCHANGED <<nfaOut, nfaAccept, nfaInit, dfaOut, dfaAccept, q, processed, minOut, lrVars, tagVars, limeVars, parseVars, regexVars>>

\* the construction of the new states and their edges
MinBuild ==
    /\ pc = "quotient"
    /\ \E res \in BuildOutcomes(partition) :
          IF res.ok
          THEN minOut' = res.edges /\ pc' = "done"
          ELSE UNCHANGED minOut /\ pc' = "assert_failed"
    /\ UNCHANGED <<nfaOut, nfaAccept, nfaInit, dfaOut, dfaAccept, q, processed, partition, lrVars, tagVars, limeVars, parseVars, regexVars>>

\* the input automata: NumNfa states, state 0 initial, any accept labels, no edges yet
InitFA ==
    /\ nfaOut = [s \in NfaStates |-> <<>>]
    /\ nfaAccept \in [NfaStates -> {NoAccept} \cup Tags]
    /\ nfaInit = {0}
    /\ pc = "input"
    /\ dfaOut = <<>>
    /\ dfaAccept = <<>>
    /\ q = <<>>
    /\ processed = {}
    /\ partition = {}
    /\ minOut = {}
    /\ IdleLR
    /\ IdleTag
    /\ IdleLime
    /\ IdleParse
    /\ IdleRegex

NextFA ==
    \/ \E s \in NfaStates, e \in EdgePool : Connect(s, e)
    \/ ConvStart
    \/ ConvStep
    \/ ConvAccept
    \/ MinPartition
    \/ MinRefine
    \/ MinBuild

SpecFA == InitFA /\ [][NextFA]_vars

-----------------------------------------------------------------------------
(* The languages of the three automata, read off their edges.              *)

Strings == StringsUpTo(Alphabet, MaxStrLen)

\* the NFA states reached on a string: epsilon edges are free, a labelled edge
\* is taken on a character of its label
RECURSIVE NfaReach(_)
NfaReach(str) ==
    IF str = <<>> THEN EpsilonClosure(nfaInit)
    ELSE LET before == NfaReach(SubSeq(str, 1, Len(str) - 1))
             c == str[Len(str)]
         IN EpsilonClosure({e.target : e \in {x \in UNION {Range(nfaOut[s]) : s \in before} :
                                                ~x.eps /\ c \in x.label}})

\* the accept labels of the accepting NFA states reached on a string
NfaTags(str) == {nfaAccept[s] : s \in NfaReach(str)} \ {NoAccept}

\* the DFA states reached on a string
RECURSIVE DfaReach(_)
DfaReach(str) ==
    IF str = <<>> THEN {DfaInitial}
    ELSE LET before == DfaReach(SubSeq(str, 1, Len(str) - 1))
             c == str[Len(str)]
         IN {e.target : e \in {x \in UNION {Range(dfaOut[s]) : s \in before} : c \in x.label}}

DfaTags(str) == {dfaAccept[s] : s \in DfaReach(str)} \ {NoAccept}

\* the minimized automaton: its initial state is the class of the DFA's
\* initial state, a class has the accept label of its states
MinInitial == PartitionMap(DfaInitial)

MinAccept(class) == dfaAccept[CHOOSE s \in class : TRUE]

RECURSIVE MinReach(_)
MinReach(str) ==
    IF str = <<>> THEN {MinInitial}
    ELSE LET before == MinReach(SubSeq(str, 1, Len(str) - 1))
             c == str[Len(str)]
         IN {e.dst : e \in {x \in minOut : x.src \in before /\ c \in x.label}}

MinTags(str) == {MinAccept(class) : class \in MinReach(str)} \ {NoAccept}

Converted == pc \in {"partition", "refine", "quotient", "done", "assert_failed"}

-----------------------------------------------------------------------------
(* Claims about fa.py.                                                     *)

\* C1: the automaton returned by minimize_enfa accepts a string iff the DFA of
\* convert_enfa_to_dfa accepts it, and then with an equal accept label.
C1_MinimizePreservesLanguage ==
    pc = "done" => \A str \in Strings : MinTags(str) = DfaTags(str)

\* a DFA state with two out-edges to one target state was minimized
C1_Witness ==
    /\ pc = "done"
    /\ \E s \in DOMAIN dfaOut : \E i, j \in DOMAIN dfaOut[s] :
          i # j /\ dfaOut[s][i].target = dfaOut[s][j].target

\* C2: every string the NFA accepts is accepted by the DFA, with the
\* combination (min) of the accept labels of the accepting NFA states reached.
C2_SubsetConstructionSound ==
    Converted =>
        \A str \in Strings : NfaTags(str) # {} => DfaTags(str) = {Min(NfaTags(str))}

\* an NFA with two labelled edges from one state to one target was converted
C2_Witness ==
    /\ Converted
    /\ \E s \in NfaStates : \E i, j \in DOMAIN nfaOut[s] :
          /\ i # j /\ ~nfaOut[s][i].eps /\ ~nfaOut[s][j].eps
          /\ nfaOut[s][i].target = nfaOut[s][j].target
          /\ nfaAccept[nfaOut[s][i].target] # NoAccept

\* the labels of the out-edges in a list are pairwise disjoint
DisjointLabels(out) ==
    \A i, j \in DOMAIN out : i # j => out[i].label \cap out[j].label = {}

\* C3: the automata returned by convert_enfa_to_dfa and minimize_enfa are in
\* DFA form: one initial state, no epsilon edge, and the labels of two
\* distinct out-edges of a state do not intersect.
C3_DfaForm ==
    /\ Converted =>
          /\ Cardinality({DfaInitial}) = 1
          /\ \A s \in DOMAIN dfaOut :
                /\ \A e \in Range(dfaOut[s]) : ~e.eps
                /\ DisjointLabels(dfaOut[s])
    /\ pc = "done" =>
          /\ MinInitial \in partition
          /\ \A e1, e2 \in minOut :
                (e1.src = e2.src /\ e1 # e2) => e1.label \cap e2.label = {}

\* a DFA state with two out-edges was built and minimized
C3_Witness ==
    /\ pc = "done"
    /\ \E s \in DOMAIN dfaOut : Len(dfaOut[s]) >= 2
    /\ \E e1, e2 \in minOut : e1.src = e2.src /\ e1 # e2

AssertNeverFails == pc # "assert_failed"

-----------------------------------------------------------------------------
(* rule.py, grammar.py: rules and grammars.                                *)

\* A rule is its left symbol and its tuple of right symbols; every rule of the
\* model has the default action, so two rules are equal iff left and right are.
Rule(left, right) == [left |-> left, right |-> right]

NontermPool == {"S", "A"}
TermPool == {"a"}
SymbolPool == NontermPool \cup TermPool

\* the left symbol '' of the synthetic start rule
StartSymbol == ""
\* None as a parent symbol
NoSymbol == "None"

Words(A, n) == StringsUpTo(A, n)

RulePool == {Rule(l, r) : l \in NontermPool, r \in Words(SymbolPool, MaxRhs)}

\* a total order on RulePool, used only to enumerate each grammar once
SymRank(x) == IF x = "S" THEN 1 ELSE IF x = "A" THEN 2 ELSE 3
RECURSIVE WordRank(_)
WordRank(w) == IF w = <<>> THEN 0
               ELSE SymRank(w[Len(w)]) + 4 * WordRank(SubSeq(w, 1, Len(w) - 1))
RuleRank(r) == SymRank(r.left) + 4 * WordRank(r.right)

\* Grammar.nonterms, Grammar.symbols, Grammar.is_terminal, Grammar.rules
Nonterms(G) == {G[i].left : i \in DOMAIN G}
GrammarSymbols(G) == Nonterms(G) \cup UNION {Range(G[i].right) : i \in DOMAIN G}
IsTerminal(G, sym) == sym \notin Nonterms(G)
Terminals(G) == GrammarSymbols(G) \ Nonterms(G)
RulesOf(G, left) == LET HasLeft(r) == r.left = left IN SelectSeq(G, HasLeft)

-----------------------------------------------------------------------------
(* first.py.                                                               *)

\* first(word, k): word[:k]
Prefix(word, kk) == SubSeq(word, 1, IF Len(word) < kk THEN Len(word) ELSE kk)

\* oplus(left, right, k): the set { FIRST_k(vw) } and the length of its shortest
\* member, k for the empty set
Oplus(left, right, kk) ==
    LET res == {Prefix(l \o r, kk) : l \in left, r \in right}
    IN [s |-> res, l |-> Min({kk} \cup {Len(w) : w \in res})]

\* First.__call__ from the symbol at position i on, with the running set res
RECURSIVE FirstFrom(_, _, _, _, _)
FirstFrom(tbl, kk, word, i, res) ==
    IF i > Len(word) THEN res
    ELSE LET rset == IF word[i] \notin DOMAIN tbl THEN {<<word[i]>>} ELSE tbl[word[i]]
             o == Oplus(res, rset, kk)
         IN IF o.l = kk THEN o.s ELSE FirstFrom(tbl, kk, word, i + 1, o.s)

\* First.__call__
FirstCall(tbl, kk, word) == FirstFrom(tbl, kk, word, 1, {<<>>})

\* one pass `for rule in grammar` of First.__init__ from rule i on; the table
\* is updated in place, so a rule sees what the rules before it added
RECURSIVE FirstPassFrom(_, _, _, _)
FirstPassFrom(tbl, G, kk, i) ==
    IF i > Len(G) THEN tbl
    ELSE FirstPassFrom([tbl EXCEPT ![G[i].left] = @ \cup FirstCall(tbl, kk, G[i].right)],
                       G, kk, i + 1)

\* a loop that never finds a pass to be the last
PassDoneNever(old, new) == FALSE

\* `done` after a pass: no word was added
PassDone(old, new) == new = old

-----------------------------------------------------------------------------
(* lrparser.py: items and states.                                          *)

\* None as parent_id and as accepting_state
NoState == -1

\* _Item
Item(rule, index, lookahead) == [rule |-> rule, index |-> index, lookahead |-> lookahead]
Final(item) == Len(item.rule.right) <= item.index

\* _next_token: the symbol after the dot, None for a final item
NextToken(item) == IF Final(item) THEN NoSymbol ELSE item.rule.right[item.index + 1]

\* self.root: [grammar[0].left] unless a root is given
Root == IF rootArg.given THEN rootArg.syms ELSE <<g[1].left>>

\* aug_grammar = Grammar(Rule('', self.root), *grammar)
AugGrammar == <<Rule(StartSymbol, Root)>> \o g

\* the lookahead tuples: words of at most k terminals
LaUniverse == Words(Terminals(AugGrammar), k)

\* the members of a set of lookaheads in the iteration order laOrd
InOrder(laOrd, set) == LET Member(w) == w \in set IN SelectSeq(laOrd, Member)

\* the items State._close builds while it visits curitem: for each lookahead
\* of first(rule_suffix + lookahead), for each rule of the symbol after the dot
CandidateItems(cur, laOrd) ==
    LET suffix == SubSeq(cur.rule.right, cur.index + 2, Len(cur.rule.right))
        las == InOrder(laOrd, FirstCall(table, k, suffix \o cur.lookahead))
        rules == RulesOf(AugGrammar, NextToken(cur))
    IN [n \in 1..(Len(las) * Len(rules)) |->
           Item(rules[((n - 1) % Len(rules)) + 1], 0, las[((n - 1) \div Len(rules)) + 1])]

\* `if newitem not in itemset: itemlist.append(newitem)`
RECURSIVE AppendNew(_, _, _)
AppendNew(itemlist, cands, j) ==
    IF j > Len(cands) THEN itemlist
    ELSE IF cands[j] \in Range(itemlist) THEN AppendNew(itemlist, cands, j + 1)
    ELSE AppendNew(Append(itemlist, cands[j]), cands, j + 1)

\* the `while i < len(itemlist)` loop of State._close
RECURSIVE CloseFrom(_, _, _)
CloseFrom(itemlist, i, laOrd) ==
    IF i > Len(itemlist) THEN itemlist
    ELSE CloseFrom(AppendNew(itemlist, CandidateItems(itemlist[i], laOrd), 1), i + 1, laOrd)

\* a state that does not get the parent_id and parent_symbol it is given
NewStateNoParent(kernelSeq, laOrd, parentId, parentSymbol) ==
    [kernel |-> Range(kernelSeq),
     itemlist |-> CloseFrom(kernelSeq, 1, laOrd),
     parent_id |-> NoState,
     parent_symbol |-> NoSymbol,
     goto |-> <<>>,
     action |-> <<>>,
     action_origin |-> <<>>]

\* State.__init__, with list(kernel) in the order kernelSeq; parent_id and
\* parent_symbol are None until __init__ of the parser sets them
NewState(kernelSeq, laOrd, parentId, parentSymbol) ==
    [kernel |-> Range(kernelSeq),
     itemlist |-> CloseFrom(kernelSeq, 1, laOrd),
     parent_id |-> parentId,
     parent_symbol |-> parentSymbol,
     goto |-> <<>>,
     action |-> <<>>,
     action_origin |-> <<>>]

StateAt(sts, id) == sts[id + 1]

\* the symbols after the dot of the items of the kernel alone
PartSymbolsOfKernel(st) == {NextToken(it) : it \in {x \in st.kernel : ~Final(x)}}

\* the keys of `parts`: the symbols after the dot of some item
PartSymbols(st) == {NextToken(it) : it \in {x \in Range(st.itemlist) : ~Final(x)}}

\* parts[sym] as a set: the successor kernel
SuccessorKernel(st, sym) ==
    {Item(it.rule, it.index + 1, it.lookahead) :
        it \in {x \in Range(st.itemlist) : ~Final(x) /\ NextToken(x) = sym}}

\* state_kernel_map.get(kernel)
KernelIndex(sts, kernel) ==
    IF \E j \in DOMAIN sts : sts[j].kernel = kernel
    THEN (CHOOSE j \in DOMAIN sts : sts[j].kernel = kernel) - 1
    ELSE NoState

-----------------------------------------------------------------------------
(* lrparser.py: the action table.                                          *)

\* an action: None (shift, and the accept of the start rule) or a rule
ShiftAction == [shift |-> TRUE, rule |-> Rule(NoSymbol, <<>>)]
ReduceAction(rule) == [shift |-> FALSE, rule |-> rule]

\* A faulty variant of ItemRequests: an item with the dot before a terminal
\* asks for a shift on its own lookahead instead of on first(word).
ItemRequestsOwnLookahead(item, itemIndex, laOrd) ==
    IF Final(item)
    THEN <<[la |-> item.lookahead,
            action |-> IF item.rule.left = StartSymbol THEN ShiftAction
                       ELSE ReduceAction(item.rule),
            item |-> itemIndex]>>
    ELSE IF IsTerminal(AugGrammar, NextToken(item))
    THEN <<[la |-> item.lookahead, action |-> ShiftAction, item |-> itemIndex]>>
    ELSE <<>>

\* the add_action calls one item causes, in order
ItemRequests(item, itemIndex, laOrd) ==
    IF Final(item)
    THEN <<[la |-> item.lookahead,
            action |-> IF item.rule.left = StartSymbol THEN ShiftAction
                       ELSE ReduceAction(item.rule),
            item |-> itemIndex]>>
    ELSE IF IsTerminal(AugGrammar, NextToken(item))
    THEN LET word == SubSeq(item.rule.right, item.index + 1, Len(item.rule.right))
                        \o item.lookahead
             ws == InOrder(laOrd, FirstCall(table, k, SubSeq(word, 2, Len(word))))
         IN [n \in 1..Len(ws) |->
                [la |-> Prefix(<<word[1]>> \o ws[n], k), action |-> ShiftAction,
                 item |-> itemIndex]]
    ELSE <<>>

\* the add_action calls of one state: `for item_index, item in enumerate(state.itemlist)`
RECURSIVE StateRequests(_, _, _)
StateRequests(st, j, laOrd) ==
    IF j > Len(st.itemlist) THEN <<>>
    ELSE ItemRequests(st.itemlist[j], j - 1, laOrd) \o StateRequests(st, j + 1, laOrd)

\* A faulty variant of ConflictType: only the new action is looked at.
ConflictTypeNewOnly(newAction, oldAction) ==
    IF newAction = ShiftAction THEN "shift/reduce" ELSE "reduce/reduce"

\* the message of ActionConflictError
ConflictType(newAction, oldAction) ==
    IF newAction = ShiftAction \/ oldAction = ShiftAction THEN "shift/reduce"
    ELSE "reduce/reduce"

\* add_action applied to the requests from position n on
RECURSIVE ApplyRequests(_, _, _)
ApplyRequests(st, reqs, n) ==
    IF n > Len(reqs) THEN [ok |-> TRUE, st |-> st, type |-> "none", item1 |-> -1, item2 |-> -1]
    ELSE LET r == reqs[n]
         IN IF r.la \in DOMAIN st.action /\ st.action[r.la] # r.action
            THEN [ok |-> FALSE, st |-> st, type |-> ConflictType(r.action, st.action[r.la]),
                  item1 |-> r.item, item2 |-> st.action_origin[r.la]]
            ELSE ApplyRequests([st EXCEPT !.action = (r.la :> r.action) @@ @,
                                          !.action_origin = (r.la :> r.item) @@ @],
                               reqs, n + 1)

\* the loop `for state_id, state in enumerate(states)` from state id on
RECURSIVE FillFrom(_, _, _)
FillFrom(sts, id, laOrd) ==
    IF id >= Len(sts) THEN [ok |-> TRUE, states |-> sts, type |-> "none",
                            state |-> NoState, item1 |-> -1, item2 |-> -1]
    ELSE LET res == ApplyRequests(StateAt(sts, id), StateRequests(StateAt(sts, id), 1, laOrd), 1)
             sts2 == [sts EXCEPT ![id + 1] = res.st]
         IN IF res.ok THEN FillFrom(sts2, id + 1, laOrd)
            ELSE [ok |-> FALSE, states |-> sts2, type |-> res.type,
                  state |-> id, item1 |-> res.item1, item2 |-> res.item2]

\* A faulty variant of HasCompletedStart: the test `item.rule.left == ''` is
\* left out, any final item counts.
HasFinalItem(st) == \E it \in Range(st.itemlist) : Final(it)

\* a state that holds the completed item of the start rule
HasCompletedStart(st) ==
    \E it \in Range(st.itemlist) : Final(it) /\ it.rule.left = StartSymbol

\* accepting_state after the loop: the last state that holds a final item of
\* the rule with left symbol '', None if there is none
AcceptingState(sts) ==
    LET ids == {id \in 0..(Len(sts) - 1) : HasCompletedStart(StateAt(sts, id))}
    IN IF ids = {} THEN NoState ELSE CHOOSE id \in ids : \A other \in ids : other <= id

NoError == [type |-> "none", state |-> NoState, item1 |-> -1, item2 |-> -1]

-----------------------------------------------------------------------------
(* lrparser.py: _LrParser.__init__.                                        *)

\* a check of the grammar alone, the root taken as given
InvalidGrammarNoRootCheck == Len(g) = 0

\* the two checks _LrParser.__init__ starts with: either raises
\* InvalidGrammarError
InvalidGrammar ==
    \/ Len(g) = 0
    \/ rootArg.given /\ \E i \in DOMAIN rootArg.syms : rootArg.syms[i] \notin GrammarSymbols(g)

\* the checks at the head of __init__; then First.__init__ creates the table
LrStart ==
    /\ pcL = "start"
    /\ IF InvalidGrammar
       THEN pcL' = "invalid_grammar" /\ UNCHANGED table
       ELSE pcL' = "first" /\ table' = [nt \in Nonterms(AugGrammar) |-> {}]
    /\ UNCHANGED <<g, k, rootArg, states, si, todo, accepting, lrError, faVars, tagVars, limeVars, parseVars, regexVars>>

\* one pass of the `while not done:` loop of First.__init__
FirstPass ==
    /\ pcL = "first"
    /\ LET new == FirstPassFrom(table, AugGrammar, k, 1)
       IN IF PassDone(table, new)
          THEN pcL' = "table_done" /\ UNCHANGED table
          ELSE table' = new /\ UNCHANGED pcL
    /\ UNCHANGED <<g, k, rootArg, states, si, todo, accepting, lrError, faVars, tagVars, limeVars, parseVars, regexVars>>

MaxPermutedSymbols == 4 \* symbols of a grammar whose sets are iterated in every order

\* The order in which a dict or set of the construction is iterated.  It is
\* a function of the contents the model does not know: for a grammar of at
\* most MaxPermutedSymbols symbols every order is taken, for a larger
\* grammar one order per set.
FixedOrders == Cardinality(GrammarSymbols(g)) > MaxPermutedSymbols

IterOrders(S) == IF FixedOrders THEN {SomeOrder(S)} ELSE Perms(S)

\* the symbols `parts.iteritems()` may yield next
NextSymbols(left) ==
    IF FixedOrders /\ left # {} THEN {CHOOSE y \in left : TRUE} ELSE left

\* state0 = State(kernel0, aug_grammar, first)
MakeState0 ==
    /\ pcL = "table_done"
    /\ \E laOrd \in IterOrders(LaUniverse) :
          LET state0 == NewState(<<Item(AugGrammar[1], 0, <<>>)>>, laOrd, NoState, NoSymbol)
          IN /\ states' = <<state0>>
             /\ todo' = PartSymbols(state0)
    /\ si' = 0
    /\ pcL' = "states"
    /\ UNCHANGED <<g, k, rootArg, table, accepting, lrError, faVars, tagVars, limeVars, parseVars, regexVars>>

\* one iteration of `for symbol, kernel in parts.iteritems()` for states[i]:
\* a kernel seen before gets the old index, a new kernel becomes a new state
ExpandSymbol ==
    /\ pcL = "states"
    /\ \E symbol \in NextSymbols(todo) :
          LET kernel == SuccessorKernel(StateAt(states, si), symbol)
              old == KernelIndex(states, kernel)
          IN /\ todo' = todo \ {symbol}
             /\ IF old # NoState
                THEN states' = [states EXCEPT ![si + 1].goto = (symbol :> old) @@ @]
                ELSE \E kernelSeq \in IterOrders(kernel), laOrd \in IterOrders(LaUniverse) :
                        states' = Append([states EXCEPT ![si + 1].goto =
                                                           (symbol :> Len(states)) @@ @],
                                         NewState(kernelSeq, laOrd, si, symbol))
    /\ UNCHANGED <<g, k, rootArg, pcL, table, si, accepting, lrError, faVars, tagVars, limeVars, parseVars, regexVars>>

\* `i += 1` and the test of `while i < len(states)`
AdvanceState ==
    /\ pcL = "states"
    /\ todo = {}
    /\ si' = si + 1
    /\ IF si + 1 < Len(states)
       THEN todo' = PartSymbols(StateAt(states, si + 1)) /\ UNCHANGED pcL
       ELSE pcL' = "actions" /\ UNCHANGED todo
    /\ UNCHANGED <<g, k, rootArg, table, states, accepting, lrError, faVars, tagVars, limeVars, parseVars, regexVars>>

\* the loop that fills the action tables; it ends with the parser or with
\* an ActionConflictError
FillActions ==
    /\ pcL = "actions"
    /\ \E laOrd \in IterOrders(LaUniverse) :
          LET res == FillFrom(states, 0, laOrd)
          IN /\ states' = res.states
             /\ IF res.ok
                THEN /\ accepting' = AcceptingState(res.states)
                     \* assert accepting_state != None
                     /\ pcL' = IF AcceptingState(res.states) # NoState
                               THEN "done" ELSE "assert_failed"
                     /\ UNCHANGED lrError
                ELSE /\ lrError' = [type |-> res.type, state |-> res.state,
                                    item1 |-> res.item1, item2 |-> res.item2]
                     /\ pcL' = "conflict"
                     /\ UNCHANGED accepting
    /\ UNCHANGED <<g, k, rootArg, table, si, todo, faVars, tagVars, limeVars, parseVars, regexVars>>

\* the number of right-hand-side symbols of a grammar
RECURSIVE GrammarSize(_)
GrammarSize(gr) ==
    IF gr = <<>> THEN 0 ELSE Len(gr[1].right) + GrammarSize(SubSeq(gr, 2, Len(gr)))

\* the grammars given to make_lrparser: at most MaxRules rules of RulePool with
\* at most MaxSymbols right-hand-side symbols in all.  The first rule is a rule
\* of S (the other choice renames the symbols) and the rules after it come in
\* increasing RuleRank.
RECURSIVE GrammarsOfLen(_)
GrammarsOfLen(n) ==
    IF n = 0 THEN {<<>>}
    ELSE {gr \in {Append(shorter, r) : shorter \in GrammarsOfLen(n - 1), r \in RulePool} :
             /\ gr[1].left = "S"
             /\ n >= 3 => RuleRank(gr[n - 1]) < RuleRank(gr[n])
             /\ GrammarSize(gr) <= MaxSymbols}

Grammars == UNION {GrammarsOfLen(n) : n \in 0..MaxRules}

\* the root argument: None, or a sentential form of at most maxRoot symbols,
\* which is tried with the grammars of at most MaxRootedRules rules
RootArgs(gr, maxRoot) ==
    {[given |-> FALSE, syms |-> <<>>]}
    \cup (IF Len(gr) <= MaxRootedRules
          THEN {[given |-> TRUE, syms |-> w] : w \in Words(SymbolPool, maxRoot)}
          ELSE {})

InitLR ==
    /\ g \in Grammars
    /\ k \in 0..MaxK
    /\ rootArg \in RootArgs(g, MaxRoot)
    /\ pcL = "start"
    /\ table = <<>>
    /\ states = <<>>
    /\ si = 0
    /\ todo = {}
    /\ accepting = NoState
    /\ lrError = NoError
    /\ IdleFA
    /\ IdleTag
    /\ IdleLime
    /\ IdleParse
    /\ IdleRegex

NextLR ==
    \/ LrStart
    \/ FirstPass
    \/ MakeState0
    \/ ExpandSymbol
    \/ AdvanceState
    \/ FillActions

SpecLR == InitLR /\ [][NextLR]_vars

-----------------------------------------------------------------------------
(* lrparser.py: ActionConflictError.                                       *)

RECURSIVE Reverse(_)
Reverse(seq) == IF seq = <<>> THEN <<>>
                ELSE Append(Reverse(SubSeq(seq, 2, Len(seq))), seq[1])

\* the loop `while st.parent_id:` of counterexample() and the append after it;
\* None and 0 both end the loop
RECURSIVE TraceFrom(_, _)
TraceFrom(sts, id) ==
    LET st == StateAt(sts, id)
    IN IF st.parent_id # NoState /\ st.parent_id # 0
       THEN <<st.parent_symbol>> \o TraceFrom(sts, st.parent_id)
       ELSE <<st.parent_symbol>>

\* the trace without the final reversal: from the conflicting state back
CounterexampleBackwards == TraceFrom(states, lrError.state)

\* ActionConflictError.counterexample() of the error raised
Counterexample == Reverse(TraceFrom(states, lrError.state))

-----------------------------------------------------------------------------
(* What the items of a state prescribe.                                    *)

\* the state reached from state id by the goto transitions of the symbols of
\* seq, NoState when a transition is missing
RECURSIVE FollowGoto(_, _, _)
FollowGoto(sts, id, seq) ==
    IF seq = <<>> THEN id
    ELSE IF seq[1] \notin DOMAIN StateAt(sts, id).goto THEN NoState
    ELSE FollowGoto(sts, StateAt(sts, id).goto[seq[1]], SubSeq(seq, 2, Len(seq)))

\* the lookaheads on which an item with the dot before a terminal shifts
ShiftLookaheads(item) ==
    LET rest == SubSeq(item.rule.right, item.index + 2, Len(item.rule.right))
    IN {Prefix(<<NextToken(item)>> \o w, k) : w \in FirstCall(table, k, rest \o item.lookahead)}

\* the actions an item prescribes for the lookahead u, where acceptAs is the
\* action of the completed start item
Prescribes(item, u, acceptAs) ==
    IF Final(item)
    THEN IF item.lookahead # u THEN {}
         ELSE IF item.rule.left = StartSymbol THEN {acceptAs}
         ELSE {ReduceAction(item.rule)}
    ELSE IF IsTerminal(AugGrammar, NextToken(item)) /\ u \in ShiftLookaheads(item)
    THEN {ShiftAction}
    ELSE {}

Prescribed(st, u, acceptAs) ==
    UNION {Prescribes(it, u, acceptAs) : it \in Range(st.itemlist)}

\* the accept read as a reduce by the start rule, as a rule of its own
AcceptAsReduce == ReduceAction(AugGrammar[1])

ActionsDetermined(acceptAs) ==
    \A j \in DOMAIN states :
        \A u \in LaUniverse \cup DOMAIN states[j].action :
            /\ u \in DOMAIN states[j].action <=> Prescribed(states[j], u, acceptAs) # {}
            /\ Cardinality(Prescribed(states[j], u, acceptAs)) <= 1

\* the action stored for a lookahead is the one the items prescribe
ActionsStored ==
    \A j \in DOMAIN states : \A u \in DOMAIN states[j].action :
        Prescribed(states[j], u, ShiftAction) = {states[j].action[u]}

C5_CounterexampleLeadsToConflict ==
    pcL = "conflict" => FollowGoto(states, 0, Counterexample) = lrError.state

\* the same for the conflicts outside state 0
C5_OutsideState0 ==
    (pcL = "conflict" /\ lrError.state # 0) =>
        FollowGoto(states, 0, Counterexample) = lrError.state

C5_Witness == pcL = "conflict" /\ lrError.state = 0


\* some state has two items that prescribe different actions for a lookahead
SomeConflict(acceptAs) ==
    \E j \in DOMAIN states : \E u \in LaUniverse :
        Cardinality(Prescribed(states[j], u, acceptAs)) >= 2

\* the error reports two items of the reported state that prescribe different
\* actions for one lookahead, and its message names their kind
ErrorReportsConflict(acceptAs) ==
    /\ lrError.state \in 0..(Len(states) - 1)
    /\ LET items == StateAt(states, lrError.state).itemlist
       IN /\ lrError.item1 \in 0..(Len(items) - 1)
          /\ lrError.item2 \in 0..(Len(items) - 1)
          /\ \E u \in LaUniverse :
                \E a1 \in Prescribes(items[lrError.item1 + 1], u, acceptAs),
                   a2 \in Prescribes(items[lrError.item2 + 1], u, acceptAs) :
                   /\ a1 # a2
                   /\ lrError.type = IF ShiftAction \in {a1, a2} THEN "shift/reduce"
                                     ELSE "reduce/reduce"

ConflictsRaised(acceptAs) ==
    /\ pcL = "done" => ~SomeConflict(acceptAs)
    /\ pcL = "conflict" => ErrorReportsConflict(acceptAs)

CompletedStartStates ==
    {id \in 0..(Len(states) - 1) :
        \E it \in Range(StateAt(states, id).itemlist) :
            it.rule = AugGrammar[1] /\ it.index = Len(Root)}

\* C7: after a successful construction exactly one state holds the completed
\* item of the synthetic start rule and accepting_state is its index.
C7_OneAcceptingState ==
    pcL = "done" => CompletedStartStates = {accepting}

\* a parser with more than one state holding final items was built
C7_Witness ==
    /\ pcL = "done"
    /\ accepting > 0
    /\ \E id \in 0..(Len(states) - 1) :
          id > accepting /\ \E it \in Range(StateAt(states, id).itemlist) : Final(it)

LrAssertNeverFails == pcL # "assert_failed"

-----------------------------------------------------------------------------
(* first.py: First built on the augmented grammar, as _LrParser.__init__   *)
(* does, and nothing after it.                                             *)

InitFirst ==
    /\ g \in Grammars
    /\ k \in 0..MaxK
    /\ rootArg \in RootArgs(g, MaxFirstRoot)
    /\ pcL = "start"
    /\ table = <<>>
    /\ states = <<>>
    /\ si = 0
    /\ todo = {}
    /\ accepting = NoState
    /\ lrError = NoError
    /\ IdleFA
    /\ IdleTag
    /\ IdleLime
    /\ IdleParse
    /\ IdleRegex

NextFirst ==
    \/ LrStart
    \/ FirstPass

SpecFirst == InitFirst /\ [][NextFirst]_vars

\* First.__init__ is sequential code: a pass that can run does run
SpecFirstLive == SpecFirst /\ WF_vars(NextFirst)

\* the fold of First.__call__ without the early exit: every symbol of the word
\* takes part
RECURSIVE FullFirst(_, _, _, _, _)
FullFirst(tbl, kk, word, i, res) ==
    IF i > Len(word) THEN res
    ELSE LET rset == IF word[i] \notin DOMAIN tbl THEN {<<word[i]>>} ELSE tbl[word[i]]
         IN FullFirst(tbl, kk, word, i + 1, Oplus(res, rset, kk).s)

\* the least table with FullFirst(right) within the entry of left for every
\* rule, by iteration from the empty table: its entry of A is
\* { FIRST_k(u) | A =>* u, u terminal }
RECURSIVE TrueTable(_, _, _)
TrueTable(tbl, G, kk) ==
    LET new == [nt \in DOMAIN tbl |->
                   tbl[nt] \cup UNION {FullFirst(tbl, kk, G[i].right, 1, {<<>>}) :
                                          i \in {j \in DOMAIN G : G[j].left = nt}}]
    IN IF new = tbl THEN tbl ELSE TrueTable(new, G, kk)

\* { FIRST_k(u) | word =>* u, u terminal }
TrueFirst(G, kk, word) ==
    FullFirst(TrueTable([nt \in Nonterms(G) |-> {}], G, kk), kk, word, 1, {<<>>})

\* C8: for every word w over the symbols of the grammar First(grammar, k)(w)
\* is { FIRST_k(u) | w =>* u, u terminal }, also when w holds a non-terminal
\* that derives no terminal string.
C8_FirstIsTrueFirst ==
    pcL = "table_done" =>
        \A w \in Words(GrammarSymbols(AugGrammar), MaxWord) :
            FirstCall(table, k, w) = TrueFirst(AugGrammar, k, w)

\* the table was built for a grammar with a non-terminal that derives no
\* terminal string and a rule that has it after a terminal
C8_Witness ==
    /\ pcL = "table_done"
    /\ \E i \in DOMAIN AugGrammar :
          /\ Len(AugGrammar[i].right) = 2
          /\ IsTerminal(AugGrammar, AugGrammar[i].right[1])
          /\ ~IsTerminal(AugGrammar, AugGrammar[i].right[2])
          /\ TrueFirst(AugGrammar, k, <<AugGrammar[i].right[2]>>) = {}

\* a table closed under the rules: first(right) is within the entry of left
Closed(tbl) ==
    \A i \in DOMAIN AugGrammar :
        FirstCall(tbl, k, AugGrammar[i].right) \subseteq tbl[AugGrammar[i].left]

\* C9: once the table is built first(alpha) is within the entry of A for
\* every rule A -> alpha, every table closed in this way holds the built one,
\* and first of the empty word is {()}.
C9_TableLeastClosed ==
    pcL = "table_done" =>
        /\ Closed(table)
        /\ \A other \in [DOMAIN table -> SUBSET LaUniverse] :
              Closed(other) => \A nt \in DOMAIN table : table[nt] \subseteq other[nt]
        /\ FirstCall(table, k, <<>>) = {<<>>}

\* the two parts of C9 that do not speak of the least table
C9_ClosedOnly ==
    pcL = "table_done" => Closed(table) /\ FirstCall(table, k, <<>>) = {<<>>}

\* the table was built in more than one pass and has an entry with two words
C9_Witness ==
    /\ pcL = "table_done"
    /\ \E nt \in DOMAIN table : Cardinality(table[nt]) >= 2

-----------------------------------------------------------------------------
(* lime_grammar.py: the accept tags of make_lime_parser.                   *)

\* the priorities process_token gives a regex token and a literal token
RegexPrio == 0
LiteralPrio == 1

\* _LexDfaAccept; None is NoTag.  The class defines no __eq__, and two tags
\* that are equal field by field combine to a tag with the same fields, so the
\* model compares tags by their fields.
LexDfaAccept(token_id, prio, tokens) ==
    [token_id |-> token_id, prio |-> prio, tokens |-> tokens]
NoTag == [token_id |-> -1, prio |-> -1, tokens |-> {}]

\* process_token: the accept of the automaton of one token; a token is named
\* by its kind and its position among the tokens and discards
ProcessToken(kind, position, token_id) ==
    LexDfaAccept(token_id, IF kind = "regex" THEN RegexPrio ELSE LiteralPrio,
                 {<<kind, position>>})

\* the two loops that fill `fas`: token i gets the id i, every discard gets
\* discard_id = len(fas) as it is after the first loop
FasTags(toks, discs) ==
    [i \in 1..(Len(toks) + Len(discs)) |->
        IF i <= Len(toks) THEN ProcessToken(toks[i], i, i - 1)
        ELSE ProcessToken(discs[i - Len(toks)], i, Len(toks))]

Max(a, b) == IF a >= b THEN a ELSE b

\* A faulty variant of CombineAcceptLabels: the priorities are compared the
\* wrong way round.
CombineLowerPrio(lhs, rhs) ==
    IF lhs.token_id = rhs.token_id
    THEN [ok |-> TRUE,
          tag |-> LexDfaAccept(lhs.token_id, Max(lhs.prio, rhs.prio),
                               lhs.tokens \cup rhs.tokens)]
    ELSE IF lhs.prio = rhs.prio THEN [ok |-> FALSE, tag |-> NoTag]
    ELSE [ok |-> TRUE, tag |-> IF lhs.prio < rhs.prio THEN lhs ELSE rhs]

\* combine_accept_labels: [ok, tag]; not ok where the code evaluates
\* lhs.token, an attribute _LexDfaAccept does not have
CombineAcceptLabels(lhs, rhs) ==
    IF lhs.token_id = rhs.token_id
    THEN [ok |-> TRUE,
          tag |-> LexDfaAccept(lhs.token_id, Max(lhs.prio, rhs.prio),
                               lhs.tokens \cup rhs.tokens)]
    ELSE IF lhs.prio = rhs.prio THEN [ok |-> FALSE, tag |-> NoTag]
    ELSE [ok |-> TRUE, tag |-> IF lhs.prio > rhs.prio THEN lhs ELSE rhs]

\* precombine of convert_enfa_to_dfa with accept_combine = combine_accept_labels
PrecombineTags(lhs, rhs) ==
    IF lhs = NoTag THEN [ok |-> TRUE, tag |-> rhs]
    ELSE IF rhs = NoTag THEN [ok |-> TRUE, tag |-> lhs]
    ELSE IF lhs = rhs THEN [ok |-> TRUE, tag |-> lhs]
    ELSE CombineAcceptLabels(lhs, rhs)

\* the loops `for token_id, token in enumerate(g.tokens)` and `for discard in
\* g.discards`
ProcessTokens ==
    /\ pcT = "tokens"
    /\ fasTags' = FasTags(tokKinds, discKinds)
    /\ pcT' = "convert"
    /\ UNCHANGED <<inlineVars, tokKinds, discKinds, members, acc, pos, tagError, faVars, lrVars, limeVars, parseVars, regexVars>>

\* convert_enfa_to_dfa comes to a DFA state: reduce starts with the accept of
\* the first NFA state of inv_state_map[state]
DfaState ==
    /\ pcT = "convert"
    /\ \E n \in 1..MaxMembers : \E ms \in [1..n -> Range(fasTags) \cup {NoTag}] :
          /\ members' = ms
          /\ acc' = ms[1]
    /\ pos' = 1
    /\ pcT' = "reduce"
    /\ UNCHANGED <<inlineVars, tokKinds, discKinds, fasTags, tagError, faVars, lrVars, limeVars, parseVars, regexVars>>

\* one call of precombine by reduce
ReduceStep ==
    /\ pcT = "reduce"
    /\ pos < Len(members)
    /\ LET res == PrecombineTags(acc, members[pos + 1])
       IN IF res.ok
          THEN acc' = res.tag /\ pos' = pos + 1 /\ UNCHANGED <<pcT, tagError>>
          ELSE pcT' = "error" /\ tagError' = "AttributeError" /\ UNCHANGED <<acc, pos>>
    /\ UNCHANGED <<inlineVars, tokKinds, discKinds, fasTags, members, faVars, lrVars, limeVars, parseVars, regexVars>>

\* state.accept = the value of reduce
ReduceDone ==
    /\ pcT = "reduce"
    /\ pos = Len(members)
    /\ pcT' = "done"
    /\ UNCHANGED <<inlineVars, tokKinds, discKinds, fasTags, members, acc, pos, tagError, faVars, lrVars, limeVars, parseVars, regexVars>>

TokenKinds == {"literal", "regex"}

InitTag ==
    /\ tokKinds \in UNION {[1..n -> TokenKinds] : n \in 1..MaxTokens}
    /\ discKinds \in UNION {[1..n -> TokenKinds] : n \in 0..MaxDiscards}
    /\ fasTags = <<>>
    /\ members = <<>>
    /\ acc = NoTag
    /\ pos = 0
    /\ pcT = "tokens"
    /\ tagError = "none"
    /\ IdleInline
    /\ IdleFA
    /\ IdleLR
    /\ IdleLime
    /\ IdleParse
    /\ IdleRegex

NextTag ==
    \/ ProcessTokens
    \/ DfaState
    \/ ReduceStep
    \/ ReduceDone

SpecTag == InitTag /\ [][NextTag]_vars

\* the claim's combine rule for two tags that do not conflict
RuleResult(lhs, rhs) ==
    IF lhs.token_id = rhs.token_id
    THEN [token_id |-> lhs.token_id,
          prio |-> IF lhs.prio < rhs.prio THEN rhs.prio ELSE lhs.prio,
          tokens |-> lhs.tokens \cup rhs.tokens]
    ELSE IF lhs.prio < rhs.prio THEN rhs ELSE lhs

\* C10: combining two accept tags that do not conflict gives, for equal
\* token_id, that token_id with the larger priority and the union of the
\* origins, and for different token_id and different priority the tag of the
\* higher priority; a DFA state that accepts a literal token (priority 1) and
\* a regex token (priority 0) is tagged with the literal token.
C10_CombineRule ==
    /\ [][(/\ pcT = "reduce" /\ pos < Len(members)
           /\ acc # NoTag /\ members[pos + 1] # NoTag
           /\ (acc.token_id = members[pos + 1].token_id \/ acc.prio # members[pos + 1].prio))
          => (pcT' = "reduce" /\ acc' = RuleResult(acc, members[pos + 1]))]_vars
    /\ [](pcT = "done" =>
            \A i, j \in DOMAIN members :
               (/\ members[i] # NoTag /\ members[i].prio = 1
                /\ members[j] # NoTag /\ members[j].prio = 0
                /\ members[i].token_id # members[j].token_id)
               => (acc.token_id = members[i].token_id /\ acc.prio = 1
                   /\ members[i].tokens \subseteq acc.tokens))

\* a DFA state of a literal token and a regex token got its tag
C10_Witness ==
    /\ pcT = "done"
    /\ \E i, j \in DOMAIN members :
          /\ i < j
          /\ members[i] # NoTag /\ members[i].prio = 0
          /\ members[j] # NoTag /\ members[j].prio = 1
          /\ members[i].token_id # members[j].token_id

\* reduce is about to combine two accepts of different token_id and equal
\* priority
TagConflictAhead ==
    /\ pcT = "reduce" /\ pos < Len(members)
    /\ acc # NoTag /\ members[pos + 1] # NoTag
    /\ acc.token_id # members[pos + 1].token_id
    /\ acc.prio = members[pos + 1].prio

\* C11: when a DFA state holds accepting NFA states of two tokens with
\* different token_id and equal priority, the construction fails with a
\* LexerConflictError and no lexer DFA is produced.
C11_ConflictRaisesLexerConflictError ==
    [][TagConflictAhead => (pcT' = "error" /\ tagError' = "LexerConflictError")]_vars

\* what the code does on such a pair: the construction stops, with the
\* AttributeError of `lhs.token`
C11_ConflictStops ==
    [][TagConflictAhead => (pcT' = "error" /\ tagError' = "AttributeError")]_vars

\* combine_accept_labels met two tokens of different token_id and equal
\* priority
C11_Witness ==
    /\ pcT = "error"
    /\ acc # NoTag /\ members[pos + 1] # NoTag
    /\ acc.token_id # members[pos + 1].token_id
    /\ acc.prio = members[pos + 1].prio

-----------------------------------------------------------------------------
(* lrparser.py: _LrParser.parse.                                           *)

MaxParseK == 2     \* lookahead lengths 0 .. MaxParseK of a parser that parses
MaxParseRules == 2 \* rules of a grammar a sentence is parsed with
MaxParseSymbols == 2 \* symbols on the right of all rules of such a grammar
MaxSentence == 3   \* tokens of a parsed sentence
MaxStack == 10     \* entries of the parse stack
MaxReduced == 12   \* reductions of a parse run
MaxParseSteps == 16 \* iterations of the loop of a parse run as a whole

\* no token: the None of get_shift_token, and no token in an error
NoToken == "None"

\* the state of one call of parse: the iterator `it` (sentence, taken),
\* lookahead, stack, token_counter and where the call is
ParseConf(sent) ==
    [sentence |-> sent, taken |-> 0, lookahead |-> <<>>, stack |-> <<0>>,
     token_counter |-> 0, pc |-> "running", token |-> NoToken,
     asts |-> <<>>, reduced |-> <<>>]

\* update_lookahead of the three variants of parse
UpdateLookahead(c) ==
    IF k = 0 THEN c
    ELSE IF k = 1
    THEN IF c.lookahead = <<>> /\ c.taken < Len(c.sentence)
         THEN [c EXCEPT !.lookahead = <<c.sentence[c.taken + 1]>>, !.taken = @ + 1]
         ELSE c
    ELSE LET n == Min({k - Len(c.lookahead), Len(c.sentence) - c.taken})
         IN [c EXCEPT !.lookahead = @ \o SubSeq(c.sentence, c.taken + 1, c.taken + n),
                      !.taken = @ + n]

\* get_shift_token of the three variants: the token and what is left
ShiftToken(c) ==
    IF k = 0
    THEN IF c.taken < Len(c.sentence)
         THEN [tok |-> c.sentence[c.taken + 1], conf |-> [c EXCEPT !.taken = @ + 1]]
         ELSE [tok |-> NoToken, conf |-> c]
    ELSE IF c.lookahead = <<>> THEN [tok |-> NoToken, conf |-> c]
    ELSE IF k = 1
    THEN [tok |-> c.lookahead[Len(c.lookahead)],
          conf |-> [c EXCEPT !.lookahead = SubSeq(@, 1, Len(@) - 1)]]
    ELSE [tok |-> c.lookahead[1], conf |-> [c EXCEPT !.lookahead = Tail(@)]]

\* State.get_next_state: goto.get(symbol)
GetNextState(st, symbol) ==
    IF symbol \in DOMAIN st.goto THEN st.goto[symbol] ELSE NoState

\* a reduce branch that takes the goto of the state on top of the stack
\* without removing the states of the rule's right side
ParseReduceNoPop(c, action) ==
    LET next_state == GetNextState(StateAt(states, c.stack[Len(c.stack)]), action.left)
    IN IF next_state = NoState
       THEN [c EXCEPT !.pc = "AssertionError", !.reduced = Append(@, action)]
       ELSE [c EXCEPT !.stack = Append(@, next_state),
                      !.asts = Append(@, action.left),
                      !.reduced = Append(@, action)]

\* the reduce branch of parse for the rule `action`
ParseReduce(c, action) ==
    LET n == Len(action.right)
        popped == SubSeq(c.stack, 1, Len(c.stack) - n)
        next_state == GetNextState(StateAt(states, popped[Len(popped)]), action.left)
        kept == SubSeq(c.asts, 1, Len(c.asts) - n)
    IN IF next_state = NoState
       THEN [c EXCEPT !.stack = popped, !.asts = kept, !.pc = "AssertionError",
                      !.reduced = Append(@, action)]
       ELSE [c EXCEPT !.stack = Append(popped, next_state),
                      !.asts = Append(kept, action.left),
                      !.reduced = Append(@, action)]

\* the shift branch of parse in the state state_id
ParseShift(c, state_id) ==
    LET got == ShiftToken(c)
        d == got.conf
        next_state == GetNextState(StateAt(states, state_id), got.tok)
    IN IF got.tok = NoToken
       THEN IF state_id = accepting
            \* assert len(asts) == 1
            THEN [d EXCEPT !.pc = IF Len(d.asts) = 1 THEN "accepted" ELSE "AssertionError"]
            \* PrematureEndOfFileError() lacks the `message` argument that
            \* ParsingError.__init__ requires and it inherits
            ELSE [d EXCEPT !.pc = "TypeError"]
       ELSE IF next_state = NoState
            THEN [d EXCEPT !.token_counter = @ + 1, !.pc = "UnexpectedTokenError",
                           !.token = got.tok]
            ELSE [d EXCEPT !.token_counter = @ + 1, !.stack = Append(@, next_state),
                           !.asts = Append(@, got.tok)]

\* one iteration of the `while True:` loop of parse
ParseStep(c) ==
    LET state_id == c.stack[Len(c.stack)]
        state == StateAt(states, state_id)
        d == UpdateLookahead(c)
        key == d.lookahead
    IN IF key \notin DOMAIN state.action
       \* assert lookahead; raise UnexpectedTokenError(lookahead[0], token_counter)
       THEN IF d.lookahead = <<>> THEN [d EXCEPT !.pc = "AssertionError"]
            ELSE [d EXCEPT !.pc = "UnexpectedTokenError", !.token = d.lookahead[1]]
       ELSE IF state.action[key] = ShiftAction THEN ParseShift(d, state_id)
       ELSE ParseReduce(d, state.action[key].rule)

\* parse run to its end, for at most `fuel` iterations and MaxStack entries
RECURSIVE ParseRun(_, _)
ParseRun(c, fuel) ==
    IF c.pc # "running" \/ Len(c.stack) >= MaxStack \/ Len(c.reduced) >= MaxReduced
       \/ fuel = 0
    THEN c
    ELSE ParseRun(ParseStep(c), fuel - 1)

-----------------------------------------------------------------------------
(* lime_grammar.py: make_lime_parser on a grammar whose tokens are         *)
(* literals, the lexers it builds and lexparse.                            *)

MaxLimeRules == 2     \* rules of a lime grammar
MaxText == 2          \* characters of the text given to lexparse

\* The symbol of the token with the id i.  _lex_rhs numbers the tokens 0, 1,
\* ... and the rules hold these numbers as symbols; the model writes the
\* number i as the string TokSym(i), its symbols being strings.
TokenSymbols == <<"0", "1", "2", "3">>
TokSym(i) == TokenSymbols[i + 1]

LimeChars == {"a", "b", "c"}
\* the literals of the tokens, by the number of tokens, and of the discards
TokenLists == {<<>>, <<(<<"a">>)>>, <<(<<"a">>), (<<"b">>)>>, <<(<<"a">>), (<<"a", "b">>)>>}
DiscardLists == {<<>>, <<(<<"c">>)>>, <<(<<"c">>), (<<"b">>)>>}

\* the token symbols of a grammar in the order of their first appearance
RECURSIVE Flatten(_)
Flatten(gr) == IF gr = <<>> THEN <<>> ELSE gr[1].right \o Flatten(SubSeq(gr, 2, Len(gr)))

\* _lex_rhs gives a literal met for the first time the id len(_implicit_tokens):
\* the token 1 appears only after the token 0
NumberedInOrder(gr) ==
    LET syms == Flatten(gr)
        FirstAt(s) == Min({i \in DOMAIN syms : syms[i] = s})
    IN "1" \in Range(syms) => ("0" \in Range(syms) /\ FirstAt("0") < FirstAt("1"))

NumTokens(gr) == Cardinality(Range(Flatten(gr)) \cap {"0", "1"})

LimeRulePool ==
    {Rule(l, r) : l \in NontermPool, r \in Words(NontermPool \cup {"0", "1"}, MaxRhs)}

\* the grammars parse_lime_grammar gives: at least one rule, the first a rule
\* of S, the tokens numbered in the order of their appearance
RECURSIVE LimeGrammarsOfLen(_)
LimeGrammarsOfLen(n) ==
    IF n = 0 THEN {<<>>}
    ELSE {gr \in {Append(shorter, r) : shorter \in LimeGrammarsOfLen(n - 1), r \in LimeRulePool} :
             /\ gr[1].left = "S"
             /\ GrammarSize(gr) <= MaxSymbols
             /\ NumberedInOrder(gr)}

LimeGrammars == UNION {LimeGrammarsOfLen(n) : n \in 1..MaxLimeRules}

\* _LexDfaAccept(token_id, 1, [token]) of process_token and the automaton
\* make_dfa_from_literal builds for it: a chain over the characters of the
\* literal that ends in a state whose accept is the label
LiteralFa(literal, token_id) ==
    [literal |-> literal, accept |-> LexDfaAccept(token_id, LiteralPrio, {literal})]

\* the two loops that fill `fas`: token i gets the id i, every discard the id
\* discard_id = len(fas) as it is after the first loop
MakeFasList(toks, discs) ==
    [i \in 1..(Len(toks) + Len(discs)) |->
        IF i <= Len(toks) THEN LiteralFa(toks[i], i - 1)
        ELSE LiteralFa(discs[i - Len(toks)], Len(toks))]

\* A faulty variant of StateTerms: the lookahead keys of action are left out.
StateTermsGotoOnly(st) ==
    {sym \in DOMAIN st.goto : sym \in Terminals(g)} \cup {TokSym(discard_id)}

\* `terms` of one state: the terminals among the keys of goto, discard_id and
\* the symbols of the keys of action
StateTerms(st) ==
    {sym \in DOMAIN st.goto : sym \in Terminals(g)}
    \cup {TokSym(discard_id)}
    \cup UNION {Range(la) : la \in DOMAIN st.action}

\* lex_map.get(terms): the index of terms in term_lists, NoState if it is new
TermsIndex(lists, terms) ==
    IF \E i \in DOMAIN lists : lists[i] = terms
    THEN (CHOOSE i \in DOMAIN lists : lists[i] = terms) - 1
    ELSE NoState

\* [fa for token_id, fa in enumerate(fas) if token_id in term_list], as the
\* set of the positions of these automata in fas
LexDfas(term_list) == {i \in 0..(Len(fas) - 1) : TokSym(i) \in term_list}

\* How minimize_enfa(union_fa(lex_dfas), combine_accept_labels) ends.  With
\* no automaton the only DFA state is the empty set of NFA states and reduce
\* is called on an empty sequence without an initial value: TypeError.  When a
\* DFA state holds the accepting states of two automata with different
\* token_id, combine_accept_labels evaluates lhs.token: AttributeError;
\* literals have the same priority, and the chains of two literals end in the
\* same DFA state exactly when the literals are equal.
LexerOutcome(lex_dfas) ==
    IF lex_dfas = {} THEN "TypeError"
    ELSE IF \E i, j \in lex_dfas :
               /\ fas[i + 1].literal = fas[j + 1].literal
               /\ fas[i + 1].accept.token_id # fas[j + 1].accept.token_id
    THEN "AttributeError"
    ELSE "ok"

\* the loops of make_lime_parser that fill fas; make_lrparser has returned
MakeFas ==
    /\ pcM = "lr"
    /\ pcL = "done"
    /\ fas' = MakeFasList(gTokens, gDiscards)
    /\ discard_id' = Len(gTokens)
    /\ pcM' = IF context_lexer THEN "terms" ELSE "single"
    /\ UNCHANGED <<engineVars, gTokens, gDiscards, context_lexer, term_lists, lexer_id, lexers,
                   text, lexed, result, faVars, lrVars, tagVars, parseVars, regexVars>>

\* `if not g.context_lexer`: one lexer of all automata, lexer_id 0 everywhere
SingleLexer ==
    /\ pcM = "single"
    /\ IF LexerOutcome(0..(Len(fas) - 1)) # "ok"
       THEN /\ pcM' = "lexer_error"
            /\ result' = LexerOutcome(0..(Len(fas) - 1))
            /\ UNCHANGED <<lexers, lexer_id>>
       ELSE /\ lexers' = <<0..(Len(fas) - 1)>>
            /\ lexer_id' = [i \in 1..Len(states) |-> 0]
            /\ pcM' = "ready"
            /\ UNCHANGED result
    /\ UNCHANGED <<engineVars, gTokens, gDiscards, context_lexer, fas, discard_id, term_lists,
                   text, lexed, faVars, lrVars, tagVars, parseVars, regexVars>>

\* one iteration of `for state in p.states` of the context lexer branch
TermsStep ==
    /\ pcM = "terms"
    /\ Len(lexer_id) < Len(states)
    /\ LET terms == StateTerms(states[Len(lexer_id) + 1])
           old == TermsIndex(term_lists, terms)
       IN IF old = NoState
          THEN /\ lexer_id' = Append(lexer_id, Len(term_lists))
               /\ term_lists' = Append(term_lists, terms)
          ELSE /\ lexer_id' = Append(lexer_id, old)
               /\ UNCHANGED term_lists
    /\ UNCHANGED <<engineVars, gTokens, gDiscards, context_lexer, fas, discard_id, lexers, pcM,
                   text, lexed, result, faVars, lrVars, tagVars, parseVars, regexVars>>

\* the lexers the classes get from position n of term_lists on
RECURSIVE LexersFrom(_)
LexersFrom(n) ==
    IF n > Len(term_lists) THEN [outcome |-> "ok", lexers |-> <<>>]
    ELSE IF LexerOutcome(LexDfas(term_lists[n])) # "ok"
    THEN [outcome |-> LexerOutcome(LexDfas(term_lists[n])), lexers |-> <<>>]
    ELSE LET rest == LexersFrom(n + 1)
         IN [outcome |-> rest.outcome, lexers |-> <<LexDfas(term_lists[n])>> \o rest.lexers]

\* `for term_list in term_lists`: the lexer of each class
BuildLexers ==
    /\ pcM = "terms"
    /\ Len(lexer_id) = Len(states)
    /\ LET res == LexersFrom(1)
       IN IF res.outcome = "ok"
          THEN lexers' = res.lexers /\ pcM' = "ready" /\ UNCHANGED result
          ELSE pcM' = "lexer_error" /\ result' = res.outcome /\ UNCHANGED lexers
    /\ UNCHANGED <<engineVars, gTokens, gDiscards, context_lexer, fas, discard_id, term_lists,
                   lexer_id, text, lexed, faVars, lrVars, tagVars, parseVars, regexVars>>

\* whether p is a prefix of the word w
IsPrefix(p, w) == Len(p) <= Len(w) /\ SubSeq(w, 1, Len(p)) = p

\* DfaEngine._get_token on the DFA of the automata `lexer`: the walk follows
\* the edges while the text read is the beginning of one of the literals and
\* returns the accept of the state it stops in, which is the token_id of the
\* literal read or, in a state without accept, the AttributeError of
\* `None.token_id` in the extract function of _lexparse
GetToken(lexer, s) ==
    LET Viable(m) == \E i \in lexer : IsPrefix(SubSeq(s, 1, m), fas[i + 1].literal)
        n == CHOOSE m \in 0..Len(s) :
                 Viable(m) /\ \A m2 \in (m + 1)..Len(s) : ~Viable(m2)
        ends == {i \in lexer : fas[i + 1].literal = SubSeq(s, 1, n)}
    IN IF ends = {} THEN [ok |-> FALSE, tok |-> -1, rest |-> s]
       ELSE [ok |-> TRUE, tok |-> fas[(CHOOSE i \in ends : TRUE) + 1].accept.token_id,
             rest |-> SubSeq(s, n + 1, Len(s))]

\* list(DfaEngine.tokens(s)): the token ids, or the exception
RECURSIVE Tokens(_, _)
Tokens(lexer, s) ==
    IF s = <<>> THEN [ok |-> TRUE, toks |-> <<>>]
    ELSE LET t == GetToken(lexer, s)
         IN IF ~t.ok THEN [ok |-> FALSE, toks |-> <<>>]
            ELSE LET rest == Tokens(lexer, t.rest)
                 IN [ok |-> rest.ok, toks |-> IF rest.ok THEN <<t.tok>> \o rest.toks ELSE <<>>]

\* filter(lambda tok: tok[0] != p.discard_id, ...), then the symbols
\* extract_symbol gives the parser
NotDiscarded(toks) ==
    LET Keep(t) == t # discard_id
        kept == SelectSeq(toks, Keep)
    IN [i \in 1..Len(kept) |-> TokSym(kept[i])]

\* p.lexparse(text): the lexer is the one of states[0]; filter builds the
\* whole list of tokens before parse is called, so that update_lex, which
\* parse calls in every state, changes the DFA of a lexer that has already
\* read all the text
LexParse ==
    /\ pcM = "ready"
    /\ \E t \in StringsUpTo(LimeChars, MaxText) :
          LET lx == Tokens(lexers[lexer_id[1] + 1], t)
          IN /\ text' = t
             /\ IF lx.ok
                THEN /\ lexed' = NotDiscarded(lx.toks)
                     /\ result' = ParseRun(ParseConf(NotDiscarded(lx.toks)), MaxParseSteps).pc
                ELSE /\ lexed' = <<>>
                     /\ result' = "AttributeError"
    /\ pcM' = "parsed"
    /\ UNCHANGED <<engineVars, gTokens, gDiscards, context_lexer, fas, discard_id, term_lists,
                   lexer_id, lexers, faVars, lrVars, tagVars, parseVars, regexVars>>

InitLime ==
    /\ IdleEngine
    /\ g \in LimeGrammars
    /\ k = 1
    /\ rootArg = [given |-> FALSE, syms |-> <<>>]
    /\ pcL = "start"
    /\ table = <<>>
    /\ states = <<>>
    /\ si = 0
    /\ todo = {}
    /\ accepting = NoState
    /\ lrError = NoError
    /\ gTokens \in {toks \in TokenLists : Len(toks) = NumTokens(g)}
    /\ gDiscards \in DiscardLists
    /\ context_lexer \in BOOLEAN
    /\ fas = <<>>
    /\ discard_id = 0
    /\ term_lists = <<>>
    /\ lexer_id = <<>>
    /\ lexers = <<>>
    /\ pcM = "lr"
    /\ text = <<>>
    /\ lexed = <<>>
    /\ result = "none"
    /\ IdleFA
    /\ IdleTag
    /\ IdleParse
    /\ IdleRegex

NextLime ==
    \/ LrStart
    \/ FirstPass
    \/ MakeState0
    \/ ExpandSymbol
    \/ AdvanceState
    \/ FillActions
    \/ MakeFas
    \/ SingleLexer
    \/ TermsStep
    \/ BuildLexers
    \/ LexParse

SpecLime == InitLime /\ [][NextLime]_vars

\* the admissible set of the state with the index id, as the claim states it
Admissible(id) ==
    LET st == StateAt(states, id)
    IN {sym \in DOMAIN st.goto : IsTerminal(g, sym)}
       \cup UNION {Range(la) : la \in DOMAIN st.action}
       \cup {TokSym(Len(gTokens))}

\* C12: with a context lexer, after make_lime_parser every LR state has a
\* lexer_id that is an index into p.lexers, two states have the same lexer_id
\* iff their admissible sets are equal, and there are as many lexers as
\* distinct admissible sets.
C12_LexerIdByAdmissibleSet ==
    (pcM = "ready" /\ context_lexer) =>
        /\ Len(lexer_id) = Len(states)
        /\ \A i \in DOMAIN lexer_id : lexer_id[i] \in 0..(Len(lexers) - 1)
        /\ \A i, j \in DOMAIN lexer_id :
              (lexer_id[i] = lexer_id[j]) <=> (Admissible(i - 1) = Admissible(j - 1))
        /\ Len(lexers) = Cardinality({Admissible(id) : id \in 0..(Len(states) - 1)})

\* a parser with two lexers, one of them shared by two states
C12_Witness ==
    /\ pcM = "ready" /\ context_lexer
    /\ Len(lexers) >= 2
    /\ \E i, j \in DOMAIN lexer_id : i # j /\ lexer_id[i] = lexer_id[j]

\* C13: with a context lexer, the lexer of each class is built from the
\* automata of exactly the tokens of its admissible set: an automaton is part
\* of the lexer iff its token id is admissible, so that the automaton of every
\* discard is part of every lexer.
C13_LexerOfAdmissibleTokens ==
    (pcM = "ready" /\ context_lexer) =>
        \A c \in DOMAIN lexers : \A i \in 0..(Len(fas) - 1) :
            /\ (i \in lexers[c]) <=> (TokSym(fas[i + 1].accept.token_id) \in term_lists[c])
            /\ i >= Len(gTokens) => i \in lexers[c]

\* make_lime_parser has built the context lexers of a grammar with two discards
C13_Witness ==
    /\ pcM = "ready" /\ context_lexer
    /\ Len(gDiscards) = 2

\* what lexparse gives for `text` with the single lexer of the branch `not
\* g.context_lexer`: the tokens after the filter and how parse ends; ok is
\* false when that lexer cannot be built or does not tokenize the text
NonContextRun ==
    LET all == 0..(Len(fas) - 1)
        lx == IF LexerOutcome(all) = "ok" THEN Tokens(all, text)
              ELSE [ok |-> FALSE, toks |-> <<>>]
    IN [ok |-> lx.ok,
        toks |-> NotDiscarded(lx.toks),
        result |-> IF lx.ok
                   THEN ParseRun(ParseConf(NotDiscarded(lx.toks)), MaxParseSteps).pc
                   ELSE "none"]

\* C14: a text that the single non-context lexer tokenizes into a token
\* sequence the LR automaton accepts is lexed into the same token sequence
\* by the context lexer.
C14_ContextLexerEquivalence ==
    (pcM = "parsed" /\ context_lexer /\ NonContextRun.ok /\ NonContextRun.result = "accepted")
        => (result # "AttributeError" /\ lexed = NonContextRun.toks)

\* lexparse has run with a context lexer on a text of two tokens that the
\* non-context lexer tokenizes and the parser accepts
C14_Witness ==
    /\ pcM = "parsed" /\ context_lexer
    /\ NonContextRun.ok /\ NonContextRun.result = "accepted"
    /\ Len(NonContextRun.toks) = 2

-----------------------------------------------------------------------------
(* Claims about the minimality of the automaton of minimize_enfa.          *)

\* the states of the returned automaton: the classes reachable from its
\* initial state
RECURSIVE MinReachableFrom(_)
MinReachableFrom(seen) ==
    LET more == seen \cup {e.dst : e \in {x \in minOut : x.src \in seen}}
    IN IF more = seen THEN seen ELSE MinReachableFrom(more)

ResultStates == MinReachableFrom({MinInitial})

\* the accept labels reached from a state of the returned automaton on a string
RECURSIVE MinReachFrom(_, _)
MinReachFrom(class, str) ==
    IF str = <<>> THEN {class}
    ELSE LET before == MinReachFrom(class, SubSeq(str, 1, Len(str) - 1))
             c == str[Len(str)]
         IN {e.dst : e \in {x \in minOut : x.src \in before /\ c \in x.label}}

MinTagsFrom(class, str) == {MinAccept(c) : c \in MinReachFrom(class, str)} \ {NoAccept}

\* C15: no two distinct states of the automaton minimize_enfa returns are
\* equivalent: some string leads one of them to an accept label and the other
\* to no accepting state or to a different label.
C15_ResultIsMinimal ==
    pc = "done" =>
        \A c1, c2 \in ResultStates :
            c1 # c2 => \E str \in Strings : MinTagsFrom(c1, str) # MinTagsFrom(c2, str)

\* minimize_enfa returned an automaton of two states or more
C15_Witness == pc = "done" /\ Cardinality(ResultStates) >= 2

-----------------------------------------------------------------------------
(* lrparser.py: parse called on the parser make_lrparser has built.        *)

\* the tokens of the sentences: the terminal of the grammars and a token that
\* is no symbol of them
SentenceTokens == TermPool \cup {"b"}

\* the variables of parse as one record, and back
CurrentConf ==
    [sentence |-> sentence, taken |-> taken, lookahead |-> lookaheadBuf, stack |-> stack,
     token_counter |-> token_counter, pc |-> pcP, token |-> errToken,
     asts |-> asts, reduced |-> reductions]

\* p.parse(sentence) is called with a sentence of `sents`: the code before
\* the loop
ParseStartOn(sents) ==
    /\ pcL = "done"
    /\ pcP = "waiting"
    /\ \E sent \in sents :
          /\ sentence' = sent
          /\ taken' = ParseConf(sent).taken
          /\ lookaheadBuf' = ParseConf(sent).lookahead
          /\ stack' = ParseConf(sent).stack
          /\ token_counter' = ParseConf(sent).token_counter
          /\ pcP' = ParseConf(sent).pc
          /\ errToken' = ParseConf(sent).token
          /\ asts' = ParseConf(sent).asts
          /\ reductions' = ParseConf(sent).reduced
    /\ UNCHANGED <<faVars, lrVars, tagVars, limeVars, regexVars>>

ParseStart == ParseStartOn(StringsUpTo(SentenceTokens, MaxSentence))

\* one iteration of the loop of parse
ParseLoop ==
    /\ pcP = "running"
    /\ Len(stack) < MaxStack
    /\ Len(reductions) < MaxReduced
    /\ LET d == ParseStep(CurrentConf)
       IN /\ taken' = d.taken
          /\ lookaheadBuf' = d.lookahead
          /\ stack' = d.stack
          /\ token_counter' = d.token_counter
          /\ pcP' = d.pc
          /\ errToken' = d.token
          /\ asts' = d.asts
          /\ reductions' = d.reduced
    /\ UNCHANGED <<sentence, faVars, lrVars, tagVars, limeVars, regexVars>>

InitParse ==
    /\ g \in {gr \in Grammars : Len(gr) <= MaxParseRules /\ GrammarSize(gr) <= MaxParseSymbols}
    /\ k \in 0..MaxParseK
    /\ rootArg = [given |-> FALSE, syms |-> <<>>]
    /\ pcL = "start"
    /\ table = <<>>
    /\ states = <<>>
    /\ si = 0
    /\ todo = {}
    /\ accepting = NoState
    /\ lrError = NoError
    /\ sentence = <<>>
    /\ taken = 0
    /\ lookaheadBuf = <<>>
    /\ stack = <<>>
    /\ token_counter = 0
    /\ pcP = "waiting"
    /\ errToken = NoToken
    /\ asts = <<>>
    /\ reductions = <<>>
    /\ IdleFA
    /\ IdleTag
    /\ IdleLime
    /\ IdleRegex

NextParse ==
    \/ LrStart
    \/ FirstPass
    \/ MakeState0
    \/ ExpandSymbol
    \/ AdvanceState
    \/ FillActions
    \/ ParseStart
    \/ ParseLoop

SpecParse == InitParse /\ [][NextParse]_vars

\* The sentences of the grammar, from its rules: Derived(tbl) adds to tbl, which
\* maps a non-terminal to pairs <<i, j>>, the pairs such that a rule of the
\* non-terminal derives the tokens i+1 .. j of `sent` given tbl.
RECURSIVE EndsOf(_, _, _, _)
EndsOf(tbl, sent, right, from) ==
    IF right = <<>> THEN from
    ELSE LET sym == right[1]
             next == IF sym \in DOMAIN tbl
                     THEN {p[2] : p \in {x \in tbl[sym] : x[1] \in from}}
                     ELSE {i + 1 : i \in {j \in from : j < Len(sent) /\ sent[j + 1] = sym}}
         IN EndsOf(tbl, sent, Tail(right), next)

RECURSIVE DerivedTable(_, _, _)
DerivedTable(tbl, G, sent) ==
    LET new == [nt \in DOMAIN tbl |->
                   tbl[nt] \cup UNION {{<<i, j>> : j \in EndsOf(tbl, sent, G[r].right, {i})} :
                                          i \in 0..Len(sent),
                                          r \in {x \in DOMAIN G : G[x].left = nt}}]
    IN IF new = tbl THEN tbl ELSE DerivedTable(new, G, sent)

\* sent is a sentence of the grammar: the root derives it
IsSentence(sent) ==
    <<0, Len(sent)>> \in DerivedTable([nt \in Nonterms(AugGrammar) |-> {}],
                                      AugGrammar, sent)[StartSymbol]

ParseEnded == pcP \notin {"idle", "waiting", "running"}

\* C16: for a token sequence that is not a sentence of the grammar, parse ends
\* by raising a ParsingError and in no other way: UnexpectedTokenError with
\* the offending token when a token cannot be consumed,
\* PrematureEndOfFileError when the input ends before the accepting state;
\* for k = 0, k = 1 and k > 1.
C16_NonSentenceRaisesParsingError ==
    (ParseEnded /\ ~IsSentence(sentence)) =>
        \/ pcP = "UnexpectedTokenError" /\ errToken \in Range(sentence)
        \/ pcP = "PrematureEndOfFileError" /\ taken = Len(sentence) /\ lookaheadBuf = <<>>

\* parse ended on a token sequence that is no sentence
C16_Witness == ParseEnded /\ ~IsSentence(sentence) /\ k = 1

\* what holds instead for every k: a sequence that is no sentence is never
\* accepted; besides UnexpectedTokenError the parse ends in the failed
\* `assert lookahead`, with an empty lookahead, or for k = 0 at the end of
\* the input in the TypeError of PrematureEndOfFileError()
C16_NeverAccepted ==
    (ParseEnded /\ ~IsSentence(sentence)) =>
        /\ pcP \in {"UnexpectedTokenError", "AssertionError", "TypeError"}
        /\ pcP = "AssertionError" => lookaheadBuf = <<>>
        /\ pcP = "TypeError" => (k = 0 /\ taken = Len(sentence))

-----------------------------------------------------------------------------
(* Claims about the checks make_lrparser starts with.                      *)

\* the root argument names a symbol that is neither a left symbol nor on the
\* right of a rule of the grammar
RootUnknown ==
    rootArg.given /\ \E sym \in Range(rootArg.syms) :
                        ~\E i \in DOMAIN g : sym = g[i].left \/ sym \in Range(g[i].right)

\* C17: make_lrparser raises InvalidGrammarError, before any LR state is
\* built, when the grammar has no rules or an explicitly given root has a
\* symbol that is not among the grammar's symbols, and only then; when no root
\* is given the root is the left-hand side of the first rule.
C17_InvalidGrammarBeforeStates ==
    /\ pcL = "invalid_grammar" =>
          /\ g = <<>> \/ RootUnknown
          /\ states = <<>> /\ table = <<>>
    /\ pcL \notin {"start", "invalid_grammar"} =>
          /\ g # <<>> /\ ~RootUnknown
          /\ (states # <<>> /\ ~rootArg.given) =>
                StateAt(states, 0).kernel = {Item(Rule(StartSymbol, <<g[1].left>>), 0, <<>>)}

\* the error was raised for an unknown root symbol of a grammar with rules
C17_Witness == pcL = "invalid_grammar" /\ g # <<>> /\ RootUnknown /\ states = <<>>

-----------------------------------------------------------------------------
(* regex_parser.py: characters and the labels Lit.                         *)

Digits == {"0", "1", "2", "3", "4", "5", "6", "7", "8", "9"}
Lower == {"a", "b", "c", "d", "e", "f", "g", "h", "i", "j", "k", "l", "m",
          "n", "o", "p", "q", "r", "s", "t", "u", "v", "w", "x", "y", "z"}
Upper == {"A", "B", "C", "D", "E", "F", "G", "H", "I", "J", "K", "L", "M",
          "N", "O", "P", "Q", "R", "S", "T", "U", "V", "W", "X", "Y", "Z"}

\* the characters of the model in the order of their codes (ord); "VT" is the
\* vertical tab '\v'
Ascii ==
    <<"\t", "\n", "VT", "\f", "\r", " ", "(", ")", "*", "+", "-", ".",
      "0", "1", "2", "3", "4", "5", "6", "7", "8", "9", "?",
      "A", "B", "C", "D", "E", "F", "G", "H", "I", "J", "K", "L", "M",
      "N", "O", "P", "Q", "R", "S", "T", "U", "V", "W", "X", "Y", "Z",
      "[", "\\", "]", "^", "_",
      "a", "b", "c", "d", "e", "f", "g", "h", "i", "j", "k", "l", "m",
      "n", "o", "p", "q", "r", "s", "t", "u", "v", "w", "x", "y", "z", "|">>

\* every character there is
Sigma == Range(Ascii)

Ord(ch) == CHOOSE i \in DOMAIN Ascii : Ascii[i] = ch

\* Lit.__init__
Lit(charset, inv) == [charset |-> charset, inv |-> inv]

\* Lit.__nonzero__
LitNonzero(l) == l.charset # {} \/ l.inv

\* Lit.__sub__
LitSub(self, other) ==
    IF ~self.inv /\ ~other.inv THEN Lit(self.charset \ other.charset, FALSE)
    ELSE IF self.inv /\ ~other.inv THEN Lit(self.charset \cup other.charset, TRUE)
    ELSE IF ~self.inv /\ other.inv THEN Lit(self.charset \cap other.charset, FALSE)
    ELSE Lit(other.charset \ self.charset, FALSE)

\* Lit.__and__
LitAnd(self, other) ==
    IF ~self.inv /\ ~other.inv THEN Lit(self.charset \cap other.charset, FALSE)
    ELSE IF self.inv /\ ~other.inv THEN Lit(other.charset \ self.charset, FALSE)
    ELSE IF ~self.inv /\ other.inv THEN Lit(self.charset \ other.charset, FALSE)
    ELSE Lit(self.charset \cup other.charset, TRUE)

\* Lit.__or__
LitOr(self, other) ==
    IF ~self.inv /\ ~other.inv THEN Lit(self.charset \cup other.charset, FALSE)
    ELSE IF self.inv /\ ~other.inv THEN Lit(self.charset \ other.charset, TRUE)
    ELSE IF ~self.inv /\ other.inv THEN Lit(other.charset \ self.charset, TRUE)
    ELSE Lit(self.charset \cap other.charset, TRUE)

\* Lit.__contains__
LitContains(self, ch) == self.inv # (ch \in self.charset)

\* the labels the operators are applied to: every label over three characters,
\* the labels of [^a-z], [abc] and [A-Za-z], and labels that list every
\* character or every character but one
LitSmallChars == {"a", "b", "A"}

LitPool ==
    {Lit(cs, inv) : cs \in SUBSET LitSmallChars, inv \in BOOLEAN}
        \cup {Lit(Lower, TRUE), Lit({"a", "b", "c"}, FALSE), Lit(Upper \cup Lower, FALSE),
              Lit(Sigma, FALSE), Lit(Sigma, TRUE), Lit(Sigma \ {"a"}, TRUE)}

\* a & b
LitAndStep ==
    /\ pcR = "lit" /\ litOp = "none"
    /\ litRes' = LitAnd(litA, litB)
    /\ litOp' = "and"
    /\ UNCHANGED <<litA, litB, reInput, reAst, pcR, faVars, lrVars, tagVars, limeVars, parseVars>>

\* a | b
LitOrStep ==
    /\ pcR = "lit" /\ litOp = "none"
    /\ litRes' = LitOr(litA, litB)
    /\ litOp' = "or"
    /\ UNCHANGED <<litA, litB, reInput, reAst, pcR, faVars, lrVars, tagVars, limeVars, parseVars>>

\* a - b
LitSubStep ==
    /\ pcR = "lit" /\ litOp = "none"
    /\ litRes' = LitSub(litA, litB)
    /\ litOp' = "sub"
    /\ UNCHANGED <<litA, litB, reInput, reAst, pcR, faVars, lrVars, tagVars, limeVars, parseVars>>

InitLit ==
    /\ litA \in LitPool
    /\ litB \in LitPool
    /\ litOp = "none"
    /\ litRes = Lit({}, FALSE)
    /\ reInput = <<>>
    /\ reAst = [type |-> "None"]
    /\ pcR = "lit"
    /\ IdleFA
    /\ IdleLR
    /\ IdleTag
    /\ IdleLime
    /\ IdleParse

NextLit ==
    \/ LitAndStep
    \/ LitOrStep
    \/ LitSubStep

SpecLit == InitLit /\ [][NextLit]_vars

\* the set a label denotes: an inverted label the complement of its charset
Denotes(l) == IF l.inv THEN Sigma \ l.charset ELSE l.charset

\* the set the operator applied denotes on the operands
OpDenotes ==
    IF litOp = "and" THEN Denotes(litA) \cap Denotes(litB)
    ELSE IF litOp = "or" THEN Denotes(litA) \cup Denotes(litB)
    ELSE Denotes(litA) \ Denotes(litB)

\* C18: the label algebra agrees with set semantics: c is in A & B iff c is in
\* A and in B, likewise | and -, and a label tests as empty iff it denotes the
\* empty set; [^a-z] & [abc] is empty and [^a-z] & [A-Za-z] is [A-Z].
C18_LabelAlgebraAgrees ==
    litOp # "none" =>
        /\ \A c \in Sigma : LitContains(litRes, c) <=> c \in OpDenotes
        /\ \A l \in {litA, litB, litRes} : ~LitNonzero(l) <=> Denotes(l) = {}
        /\ (litOp = "and" /\ litA = Lit(Lower, TRUE) /\ litB = Lit({"a", "b", "c"}, FALSE)) =>
              ~LitNonzero(litRes)
        /\ (litOp = "and" /\ litA = Lit(Lower, TRUE) /\ litB = Lit(Upper \cup Lower, FALSE)) =>
              litRes = Lit(Upper, FALSE)

\* what holds: membership in the result of every operator, the two
\* intersections, and the emptiness test of the labels that are not inverted
\* or leave a character out
C18_MembershipAgrees ==
    litOp # "none" =>
        /\ \A c \in Sigma : LitContains(litRes, c) <=> c \in OpDenotes
        /\ \A l \in {litA, litB, litRes} :
              (~l.inv \/ l.charset # Sigma) => (~LitNonzero(l) <=> Denotes(l) = {})
        /\ (litOp = "and" /\ litA = Lit(Lower, TRUE) /\ litB = Lit({"a", "b", "c"}, FALSE)) =>
              ~LitNonzero(litRes)
        /\ (litOp = "and" /\ litA = Lit(Lower, TRUE) /\ litB = Lit(Upper \cup Lower, FALSE)) =>
              litRes = Lit(Upper, FALSE)

\* an operator has produced an inverted label that lists every character
C18_Witness ==
    /\ litOp # "none" /\ litRes = Lit(Sigma, TRUE)
    /\ litA # litRes /\ litB # litRes

-----------------------------------------------------------------------------
(* regex_parser.py: _regex_lexer, _regex_grammar and parse_regex.          *)

MaxClassElems == 2 \* elements of a character class of a regex of the model

\* the regex trees: None, Lit, Rep, Alt, Cat; RegexError stands for the
\* exception parse raises on a text that is no regex
NoneAst == [type |-> "None"]
RegexError == [type |-> "Error"]
AstLit(l) == [type |-> "Lit", lit |-> l]
Rep(term) == [type |-> "Rep", term |-> term]
Alt(terms) == [type |-> "Alt", terms |-> terms]
Cat(terms) == [type |-> "Cat", terms |-> terms]

\* _escape_map.get(ch, ch), as the set of characters Lit makes of the string
EscapeMap(ch) ==
    IF ch = "d" THEN Digits
    ELSE IF ch = "s" THEN {" ", "\n", "\r", "\t", "VT", "\f"}
    ELSE IF ch = "w" THEN Lower \cup Upper \cup Digits \cup {"_"}
    ELSE {ch}

\* the tokens of _regex_lexer: (symbol, character)
Tok(sym, val) == [sym |-> sym, val |-> val]

MetaChars == {"+", "*", "[", "]", "(", ")", "-", "|", "?", "^", "."}

\* _regex_lexer from character i on, esc the flag of the loop
RECURSIVE RegexLexerFrom(_, _, _)
RegexLexerFrom(input, i, esc) ==
    IF i > Len(input) THEN (IF esc THEN <<Tok("c", "\\")>> ELSE <<>>)
    ELSE LET ch == input[i]
         IN IF esc THEN <<Tok("esc", ch)>> \o RegexLexerFrom(input, i + 1, FALSE)
            ELSE IF ch = "\\" THEN RegexLexerFrom(input, i + 1, TRUE)
            ELSE IF ch \in MetaChars THEN <<Tok(ch, ch)>> \o RegexLexerFrom(input, i + 1, FALSE)
            ELSE <<Tok("c", ch)>> \o RegexLexerFrom(input, i + 1, FALSE)

RegexLexer(input) == RegexLexerFrom(input, 1, FALSE)

\* the actions of the rules of _regex_grammar
AltAction(lhs, rhs) ==
    IF lhs.type # "Alt" THEN Alt(<<lhs, rhs>>) ELSE Alt(Append(lhs.terms, rhs))

CatAction(cat, rep) ==
    IF cat.type = "None" THEN rep
    ELSE IF cat.type = "Cat" THEN Cat(Append(cat.terms, rep))
    ELSE Cat(<<cat, rep>>)

StarAction(atom) == Rep(atom)

\* a faulty variant of PlusAction: the action of the rule of `*`
PlusActionAsStar(atom) == Rep(atom)

PlusAction(atom) == Cat(<<atom, Rep(atom)>>)

OptAction(atom) == Alt(<<NoneAst, atom>>)

\* range_elem -> c - c: the characters from lhs to rhs
RangeAction(lhs, rhs) == {Ascii[i] : i \in Ord(lhs)..Ord(rhs)}

\* The parser of _regex_grammar, rule by rule: each operator reads the tokens
\* from position i and gives the value of its symbol and the position after
\* it, or ok = FALSE where the parser has no action for the next token.
Sym(toks, i) == IF i <= Len(toks) THEN toks[i].sym ELSE "$"
ParseFail == [ok |-> FALSE, ast |-> RegexError, next |-> 0]
Parsed(ast, next) == [ok |-> TRUE, ast |-> ast, next |-> next]

\* range -> | range range_elem;  range_elem -> c | c - c | esc
RECURSIVE ParseRange(_, _, _)
ParseRange(toks, i, range) ==
    IF Sym(toks, i) = "c"
    THEN IF Sym(toks, i + 1) = "-"
         THEN IF Sym(toks, i + 2) = "c"
              THEN ParseRange(toks, i + 3, range \cup RangeAction(toks[i].val, toks[i + 2].val))
              ELSE ParseFail
         ELSE ParseRange(toks, i + 1, range \cup {toks[i].val})
    ELSE IF Sym(toks, i) = "esc"
    THEN ParseRange(toks, i + 1, range \cup EscapeMap(toks[i].val))
    ELSE Parsed(range, i)

RECURSIVE ParseAlt(_, _)
RECURSIVE ParseAltRest(_, _, _)
RECURSIVE ParseCat(_, _, _)
RECURSIVE ParseRep(_, _)
RECURSIVE ParseAtom(_, _)

\* atom -> ( alt ) | . | c | esc | [ range ] | [ ^ range ]
ParseAtom(toks, i) ==
    LET sym == Sym(toks, i)
    IN IF sym = "("
       THEN LET r == ParseAlt(toks, i + 1)
            IN IF r.ok /\ Sym(toks, r.next) = ")" THEN Parsed(r.ast, r.next + 1) ELSE ParseFail
       ELSE IF sym = "." THEN Parsed(AstLit(Lit({}, TRUE)), i + 1)
       ELSE IF sym = "c" THEN Parsed(AstLit(Lit({toks[i].val}, FALSE)), i + 1)
       ELSE IF sym = "esc" THEN Parsed(AstLit(Lit(EscapeMap(toks[i].val), FALSE)), i + 1)
       ELSE IF sym = "["
       THEN LET inv == Sym(toks, i + 1) = "^"
                r == ParseRange(toks, IF inv THEN i + 2 ELSE i + 1, {})
            IN IF r.ok /\ Sym(toks, r.next) = "]"
               THEN Parsed(AstLit(Lit(r.ast, inv)), r.next + 1)
               ELSE ParseFail
       ELSE ParseFail

\* rep -> atom | atom * | atom + | atom ?
ParseRep(toks, i) ==
    LET a == ParseAtom(toks, i)
    IN IF ~a.ok THEN ParseFail
       ELSE IF Sym(toks, a.next) = "*" THEN Parsed(StarAction(a.ast), a.next + 1)
       ELSE IF Sym(toks, a.next) = "+" THEN Parsed(PlusAction(a.ast), a.next + 1)
       ELSE IF Sym(toks, a.next) = "?" THEN Parsed(OptAction(a.ast), a.next + 1)
       ELSE a

\* cat -> | cat rep
ParseCat(toks, i, cat) ==
    IF Sym(toks, i) \in {"(", ".", "c", "esc", "["}
    THEN LET r == ParseRep(toks, i)
         IN IF r.ok THEN ParseCat(toks, r.next, CatAction(cat, r.ast)) ELSE ParseFail
    ELSE Parsed(cat, i)

\* alt -> cat | alt '|' cat
ParseAltRest(toks, i, lhs) ==
    IF Sym(toks, i) = "|"
    THEN LET c == ParseCat(toks, i + 1, NoneAst)
         IN IF c.ok THEN ParseAltRest(toks, c.next, AltAction(lhs, c.ast)) ELSE ParseFail
    ELSE Parsed(lhs, i)

ParseAlt(toks, i) ==
    LET c == ParseCat(toks, i, NoneAst)
    IN IF c.ok THEN ParseAltRest(toks, c.next, c.ast) ELSE ParseFail

\* parse_regex
ParseRegex(input) ==
    LET toks == RegexLexer(input)
        r == ParseAlt(toks, 1)
    IN IF r.ok /\ r.next = Len(toks) + 1 THEN r.ast ELSE RegexError


-----------------------------------------------------------------------------
(* regex_parser.py: make_enfa_from_regex, and the regex pipeline.          *)

\* the character an input character of the automata stands for: 1 is 'a',
\* 2 is 'b', ...
CharOf(c) == Ascii[Ord("a") + c - 1]

\* a label of a regex as a label of the automata: the input characters in it
LabelOf(lit) == {c \in Alphabet : LitContains(lit, CharOf(c))}

\* An automaton under construction: the outedges list of each state, state s
\* at index s + 1.  State() appends a state; connect_to appends an edge.
WithState(fa) == Append(fa, <<>>)
ConnectTo(fa, src, sink, label) ==
    [fa EXCEPT ![src + 1] =
        Append(@, IF label.type = "None" THEN Edge(sink, TRUE, {})
                  ELSE Edge(sink, FALSE, LabelOf(label.lit)))]

RECURSIVE AddRegexEdge(_, _, _, _)
RECURSIVE AddAltTerms(_, _, _, _, _)
RECURSIVE AddCatTerms(_, _, _, _, _)

\* the loop of the Alt branch from term i on
AddAltTerms(fa, src, sink, terms, i) ==
    IF i > Len(terms) THEN fa
    ELSE LET mid == Len(fa)
             added == AddRegexEdge(WithState(fa), src, mid, terms[i])
         IN AddAltTerms(ConnectTo(added, mid, sink, NoneAst), src, sink, terms, i + 1)

\* the loop of the Cat branch from term i on, and the last term
AddCatTerms(fa, src, sink, terms, i) ==
    IF i = Len(terms) THEN AddRegexEdge(fa, src, sink, terms[i])
    ELSE LET mid == Len(fa)
         IN AddCatTerms(AddRegexEdge(WithState(fa), src, mid, terms[i]), mid, sink, terms, i + 1)

\* add_regex_edge
AddRegexEdge(fa, src, sink, r) ==
    IF r.type = "Alt" THEN AddAltTerms(fa, src, sink, r.terms, 1)
    ELSE IF r.type = "Rep"
    THEN LET mid == Len(fa)
             looped == ConnectTo(ConnectTo(WithState(fa), src, mid, NoneAst), mid, sink, NoneAst)
         IN AddRegexEdge(looped, mid, mid, r.term)
    ELSE IF r.type = "Cat"
    THEN (IF r.terms # <<>> THEN AddCatTerms(fa, src, sink, r.terms, 1) ELSE fa)
    ELSE ConnectTo(fa, src, sink, r)

\* make_enfa_from_regex: state 0 is `initial`, state 1 is `final`
MakeEnfaFromRegex(regex) == AddRegexEdge(<<(<<>>), (<<>>)>>, 0, 1, regex)

\* the labels of a regex tree
RECURSIVE LitsOf(_)
LitsOf(r) ==
    IF r.type = "Lit" THEN {r.lit}
    ELSE IF r.type = "Rep" THEN LitsOf(r.term)
    ELSE IF r.type \in {"Alt", "Cat"} THEN UNION {LitsOf(r.terms[i]) : i \in DOMAIN r.terms}
    ELSE {}

\* every label of the tree that tests as non-empty has an input character of
\* the automata in it
OverAlphabet(r) == \A l \in LitsOf(r) : LitNonzero(l) => LabelOf(l) # {}

\* the regexes of the model
EscChars == {"d", "s", "w", "n", "a", "+"}
ClassElems == {<<"a">>, <<"b">>, <<"a", "-", "b">>} \cup {<<"\\", c>> : c \in EscChars}

RECURSIVE ClassBodies(_)
ClassBodies(n) ==
    IF n = 0 THEN {<<>>}
    ELSE ClassBodies(n - 1) \cup {body \o e : body \in ClassBodies(n - 1), e \in ClassElems}

GroupTexts ==
    {<<>>, <<"a">>, <<"a", "b">>, <<"a", "|", "b">>, <<"a", "*">>, <<"b", "?">>, <<"a", "+">>}

AtomTexts ==
    {<<"a">>, <<"b">>, <<".">>}
        \cup {<<"\\", c>> : c \in EscChars}
        \cup {<<"[">> \o body \o <<"]">> : body \in ClassBodies(MaxClassElems)}
        \cup {<<"[", "^">> \o body \o <<"]">> : body \in ClassBodies(MaxClassElems)}
        \cup {<<"(">> \o inner \o <<")">> : inner \in GroupTexts}

RepTexts == {atom \o suffix : atom \in AtomTexts, suffix \in {<<>>, <<"+">>, <<"*">>, <<"?">>}}

ShortReps == {<<"a">>, <<"b">>, <<".">>, <<"a", "+">>, <<"b", "*">>}

\* texts that are no regex
BrokenTexts ==
    {<<"+">>, <<"a", "+", "+">>, <<"a", "-", "b">>, <<"(", "a">>, <<"[", "a">>, <<"a", ")">>,
     <<"[", "+", "]">>, <<"[", "a", "-", "]">>}

RegexInputs ==
    RepTexts
        \cup {r1 \o r2 : r1, r2 \in ShortReps}
        \cup {r1 \o <<"|">> \o r2 : r1, r2 \in ShortReps}
        \cup {<<"\\">>, <<"a", "\\">>}
        \cup BrokenTexts

\* parse_regex(input)
RegexParse ==
    /\ pcR = "start"
    /\ reAst' = ParseRegex(reInput)
    /\ pcR' = "parsed"
    /\ UNCHANGED <<litA, litB, litOp, litRes, reInput, faVars, lrVars, tagVars, limeVars, parseVars>>

\* make_enfa_from_regex(regex, 1), for the trees whose labels are over the
\* input characters of the automata.  fa.accept_labels[final] = accept_label
\* is taken to set the accept of `final`.
MakeEnfa ==
    /\ pcR = "parsed"
    /\ reAst # RegexError
    /\ OverAlphabet(reAst)
    /\ LET fa == MakeEnfaFromRegex(reAst)
       IN /\ nfaOut' = [s \in 0..(Len(fa) - 1) |-> fa[s + 1]]
          /\ nfaAccept' = [s \in 0..(Len(fa) - 1) |-> IF s = 1 THEN 1 ELSE NoAccept]
    /\ nfaInit' = {0}
    /\ pc' = "input"
    /\ pcR' = "enfa"
    /\ UNCHANGED <<dfaOut, dfaAccept, q, processed, partition, minOut,
                   litA, litB, litOp, litRes, reInput, reAst, lrVars, tagVars, limeVars, parseVars>>

InitRegex ==
    /\ reInput \in RegexInputs
    /\ reAst = NoneAst
    /\ pcR = "start"
    /\ litA = Lit({}, FALSE)
    /\ litB = Lit({}, FALSE)
    /\ litOp = "none"
    /\ litRes = Lit({}, FALSE)
    /\ IdleFA
    /\ IdleLR
    /\ IdleTag
    /\ IdleLime
    /\ IdleParse

NextRegex ==
    \/ RegexParse
    \/ MakeEnfa
    \/ ConvStart
    \/ ConvStep
    \/ ConvAccept

SpecRegex == InitRegex /\ [][NextRegex]_vars


-----------------------------------------------------------------------------
(* Claims about regex_parser.py.                                           *)

\* the meaning of an escaped character: the conventional sets for d, s and
\* w, the set nl for n, the character itself otherwise
Meaning(ch, nl) ==
    IF ch = "d" THEN Digits
    ELSE IF ch = "s" THEN {" ", "\t", "\n", "\r", "\f", "VT"}
    ELSE IF ch = "w" THEN Lower \cup Upper \cup Digits \cup {"_"}
    ELSE IF ch = "n" THEN nl
    ELSE {ch}

\* the characters a class body lists
RECURSIVE ClassSet(_, _)
ClassSet(body, nl) ==
    IF body = <<>> THEN {}
    ELSE IF body[1] = "\\"
    THEN Meaning(body[2], nl) \cup ClassSet(SubSeq(body, 3, Len(body)), nl)
    ELSE IF Len(body) >= 3 /\ body[2] = "-"
    THEN {Ascii[i] : i \in Ord(body[1])..Ord(body[3])}
             \cup ClassSet(SubSeq(body, 4, Len(body)), nl)
    ELSE {body[1]} \cup ClassSet(SubSeq(body, 2, Len(body)), nl)

\* the tree of every escape and of every class of the model is the label of
\* the characters it lists, \n read as nl
EscapesMean(nl) ==
    pcR # "start" =>
        /\ \A c \in EscChars :
              reInput = <<"\\", c>> => reAst = AstLit(Lit(Meaning(c, nl), FALSE))
        /\ \A body \in ClassBodies(MaxClassElems) :
              /\ reInput = <<"[">> \o body \o <<"]">> =>
                    reAst = AstLit(Lit(ClassSet(body, nl), FALSE))
              /\ reInput = <<"[", "^">> \o body \o <<"]">> =>
                    reAst = AstLit(Lit(ClassSet(body, nl), TRUE))

\* C19: in a regex the escapes \d, \s, \w and \n expand to the decimal
\* digits, the whitespace characters, the word characters and the newline
\* character, outside and inside a character class; every other escaped
\* character denotes that character.
C19_EscapesConventional == EscapesMean({"\n"})

\* a regex with the escape \n was parsed
C19_Witness ==
    /\ pcR # "start"
    /\ reInput \in {<<"\\", "n">>, <<"[", "\\", "n", "]">>}
    /\ reAst # RegexError

\* what holds: \d, \s and \w expand as claimed, and \n is the letter n like
\* every other escaped character
C19_EscapesButNewline == EscapesMean({"n"})

\* the strings of at most MaxStrLen input characters a regex tree matches
ConcatOf(A, B) == {a \o b : a \in A, b \in B} \cap Strings

RECURSIVE StarOf(_, _)
StarOf(A, sofar) ==
    LET more == sofar \cup ConcatOf(sofar, A)
    IN IF more = sofar THEN sofar ELSE StarOf(A, more)

RECURSIVE LangOf(_)
RECURSIVE LangOfCat(_, _)
LangOfCat(terms, i) ==
    IF i > Len(terms) THEN {<<>>}
    ELSE ConcatOf(LangOf(terms[i]), LangOfCat(terms, i + 1))

LangOf(r) ==
    IF r.type = "None" THEN {<<>>}
    ELSE IF r.type = "Lit" THEN {<<c>> : c \in LabelOf(r.lit)}
    ELSE IF r.type = "Rep" THEN StarOf(LangOf(r.term), {<<>>})
    ELSE IF r.type = "Alt" THEN UNION {LangOf(r.terms[i]) : i \in DOMAIN r.terms}
    ELSE LangOfCat(r.terms, 1)

\* the concatenations of one or more strings of A
PlusOf(A) == ConcatOf(A, StarOf(A, {<<>>}))

\* the regex is x+ for an atom x of the model
IsPlusRegex == \E x \in AtomTexts : reInput = x \o <<"+">>

\* the strings the DFA built from the regex accepts
DfaAccepted == {str \in Strings : DfaTags(str) # {}}

-----------------------------------------------------------------------------
(* lrparser.py: make_lrparser and parse on the grammars of the examples.   *)

\* expr -> expr '+' mul | mul; mul -> mul '*' atom | atom;
\* atom -> 'n' | '(' expr ')'
ArithGrammar ==
    <<Rule("expr", <<"expr", "+", "mul">>), Rule("expr", <<"mul">>),
      Rule("mul", <<"mul", "*", "atom">>), Rule("mul", <<"atom">>),
      Rule("atom", <<"n">>), Rule("atom", <<"(", "expr", ")">>)>>

\* list -> (empty) | list item; root -> header list
ListGrammar ==
    <<Rule("list", <<>>), Rule("list", <<"list", "item">>),
      Rule("root", <<"header", "list">>)>>

\* the same rules, the rule of root first
RootFirstListGrammar ==
    <<Rule("root", <<"header", "list">>), Rule("list", <<>>),
      Rule("list", <<"list", "item">>)>>

NoRootArg == [given |-> FALSE, syms |-> <<>>]

\* the calls of make_lrparser: the grammar and the root argument
ExampleParsers ==
    {[g |-> ArithGrammar, root |-> NoRootArg],
     [g |-> ListGrammar, root |-> NoRootArg],
     [g |-> ListGrammar, root |-> [given |-> TRUE, syms |-> <<"root">>]],
     [g |-> RootFirstListGrammar, root |-> NoRootArg]}

MaxExampleK == 1  \* lookahead lengths 0 .. MaxExampleK of the examples

ArithSentence == <<"n", "*", "(", "n", "+", "n", ")">>

\* the token sequences given to parse
ExampleSentences ==
    {ArithSentence, <<"n">>, <<"n", "+", "n">>, <<"n", "+">>, <<"(", "n", ")">>,
     <<>>, <<"item">>, <<"item", "item">>, <<"header">>, <<"header", "item">>}

ParseExample == ParseStartOn(ExampleSentences)

InitExample ==
    /\ \E p \in ExampleParsers : g = p.g /\ rootArg = p.root
    /\ k \in 0..MaxExampleK
    /\ pcL = "start"
    /\ table = <<>>
    /\ states = <<>>
    /\ si = 0
    /\ todo = {}
    /\ accepting = NoState
    /\ lrError = NoError
    /\ sentence = <<>>
    /\ taken = 0
    /\ lookaheadBuf = <<>>
    /\ stack = <<>>
    /\ token_counter = 0
    /\ pcP = "waiting"
    /\ errToken = NoToken
    /\ asts = <<>>
    /\ reductions = <<>>
    /\ IdleFA
    /\ IdleTag
    /\ IdleLime
    /\ IdleRegex

NextExample ==
    \/ LrStart
    \/ FirstPass
    \/ MakeState0
    \/ ExpandSymbol
    \/ AdvanceState
    \/ FillActions
    \/ ParseExample
    \/ ParseLoop

SpecExample == InitExample /\ [][NextExample]_vars

\* the left-hand sides of the rules reduced through, in order
RECURSIVE Lefts(_)
Lefts(rules) ==
    IF rules = <<>> THEN <<>> ELSE <<rules[1].left>> \o Lefts(Tail(rules))

\* the LR(1) parser of the arithmetic grammar has accepted n * ( n + n )
ArithParsed ==
    /\ g = ArithGrammar
    /\ k = 1
    /\ sentence = ArithSentence
    /\ pcP = "accepted"

\* C21 as the spec states it: the parse of n * ( n + n ) reduces through
\* rules with the lefts atom, mul, atom, atom, mul, expr, expr, mul, atom,
\* expr.
C21_ReductionOrderAsStated ==
    ArithParsed =>
        Lefts(reductions) = <<"atom", "mul", "atom", "atom", "mul", "expr", "expr",
                              "mul", "atom", "expr">>

\* C21, amended: the parse of n * ( n + n ) by the LR(1) parser of the
\* arithmetic grammar is accepted after the reductions of the rightmost
\* derivation in reverse: atom, mul, atom, mul, expr, atom, mul, expr,
\* atom, mul, expr.
C21_ReductionOrder ==
    /\ ArithParsed =>
          Lefts(reductions) = <<"atom", "mul", "atom", "mul", "expr", "atom", "mul",
                                "expr", "atom", "mul", "expr">>
    /\ (g = ArithGrammar /\ k = 1 /\ sentence = ArithSentence) =>
          pcP \in {"running", "accepted"}

C21_Witness == ArithParsed /\ Len(reductions) = 11


\* make_lrparser has returned or raised
LrEnded == pcL \in {"done", "conflict", "assert_failed", "invalid_grammar"}

\* make_lrparser(g, k=0) has ended for the grammar list -> (empty) | list
\* item; root -> header list
ListConstructed ==
    /\ g \in {ListGrammar, RootFirstListGrammar}
    /\ k = 0
    /\ LrEnded

\* root is the root of the grammar: its rule is the first, or root is given
RootIsRoot == Root = <<"root">>

\* C22 as the spec states it: the construction raises a shift/reduce
\* conflict whose counterexample is [header, item].
C22_ConflictAsStated ==
    ListConstructed =>
        /\ pcL = "conflict"
        /\ lrError.type = "shift/reduce"
        /\ Counterexample = <<"header", "item">>

\* C22, amended: with root as the root the construction with k = 0 raises a
\* shift/reduce conflict in the state reached over header and list, and the
\* counterexample of the error is [header, list], the goto path to that
\* state; with list as the root no error is raised.
C22_Conflict ==
    ListConstructed =>
        IF RootIsRoot
        THEN /\ pcL = "conflict"
             /\ lrError.type = "shift/reduce"
             /\ Counterexample = <<"header", "list">>
             /\ FollowGoto(states, 0, Counterexample) = lrError.state
        ELSE pcL = "done"

C22_Witness ==
    /\ ListConstructed
    /\ RootIsRoot
    /\ pcL = "conflict"
    /\ g = ListGrammar


-----------------------------------------------------------------------------
(* regex_parser.py: make_dfa_from_literal; fa.py: union_fa, minimize_enfa  *)
(* on the union of literal automata.                                       *)

DefaultAccept == 1  \* accept_label=True, the default of make_dfa_from_literal

MaxLiteral == 2     \* characters of a literal of the pool

\* the literals of the example
Nature == <<"n", "a", "t", "u", "r", "e">>
EndNature == <<"e", "n", "d">> \o Nature

\* the lists of literals given to make_dfa_from_literal: the example and the
\* lists of one or two literals over two characters
LiteralLists ==
    {<<Nature, EndNature>>}
        \cup {<<l>> : l \in StringsUpTo({"a", "b"}, MaxLiteral)}
        \cup {<<l, m>> : l, m \in StringsUpTo({"a", "b"}, MaxLiteral)}

\* the first state of automaton i of the list lits, the states of the
\* automata being numbered in the order of their creation
RECURSIVE FirstStateOf(_, _)
FirstStateOf(lits, i) ==
    IF i = 1 THEN 0 ELSE FirstStateOf(lits, i - 1) + Len(lits[i - 1].literal) + 1

\* the automaton and the position in its chain of the state s
ChainOf(lits, s) ==
    LET i == CHOOSE i \in DOMAIN lits :
                 /\ FirstStateOf(lits, i) <= s
                 /\ s <= FirstStateOf(lits, i) + Len(lits[i].literal)
    IN [fa |-> i, at |-> s - FirstStateOf(lits, i)]

\* make_dfa_from_literal: the outedges of the state s of the chain, one edge
\* init.connect_to(s, Lit([ch])) per character; fa.accept_labels = {init:
\* accept_label} is taken to set the accept of the last state
LiteralOut(lits, s) ==
    LET c == ChainOf(lits, s)
    IN IF c.at < Len(lits[c.fa].literal)
       THEN <<Edge(s + 1, FALSE, {lits[c.fa].literal[c.at + 1]})>>
       ELSE <<>>

LiteralAccept(lits, s) ==
    LET c == ChainOf(lits, s)
    IN IF c.at = Len(lits[c.fa].literal) THEN lits[c.fa].accept ELSE NoAccept

\* union_fa(fas): the automaton whose initial states are those of all fas
UnionFa ==
    /\ pc = "literals"
    /\ LET last == FirstStateOf(fas, Len(fas)) + Len(fas[Len(fas)].literal)
       IN /\ nfaOut' = [s \in 0..last |-> LiteralOut(fas, s)]
          /\ nfaAccept' = [s \in 0..last |-> LiteralAccept(fas, s)]
    /\ nfaInit' = {FirstStateOf(fas, i) : i \in DOMAIN fas}
    /\ pc' = "input"
    /\ UNCHANGED <<dfaOut, dfaAccept, q, processed, partition, minOut,
                   lrVars, tagVars, limeVars, parseVars, regexVars>>

InitLiteral ==
    /\ \E lits \in LiteralLists :
          fas = [i \in DOMAIN lits |-> [literal |-> lits[i], accept |-> DefaultAccept]]
    /\ gTokens = <<>> /\ gDiscards = <<>> /\ context_lexer = FALSE
    /\ discard_id = 0 /\ term_lists = <<>> /\ lexer_id = <<>> /\ lexers = <<>>
    /\ pcM = "idle" /\ text = <<>> /\ lexed = <<>> /\ result = "none"
    /\ IdleEngine
    /\ nfaOut = <<>> /\ nfaAccept = <<>> /\ nfaInit = {} /\ pc = "literals"
    /\ dfaOut = <<>> /\ dfaAccept = <<>> /\ q = <<>> /\ processed = {}
    /\ partition = {} /\ minOut = {}
    /\ IdleLR
    /\ IdleTag
    /\ IdleParse
    /\ IdleRegex

NextLiteral ==
    \/ UnionFa
    \/ ConvStart
    \/ ConvStep
    \/ ConvAccept
    \/ MinPartition
    \/ MinRefine
    \/ MinBuild

SpecLiteral == InitLiteral /\ [][NextLiteral]_vars

\* the literals of the automata
Literals == [i \in DOMAIN fas |-> fas[i].literal]

-----------------------------------------------------------------------------
(* lime_grammar.py: LimeGrammar, the inline tokens of the rule statements. *)

MaxSpecRules == 2  \* rule statements of a specification
MaxItems == 2      \* items of the right side of a rule statement

\* str.strip of a snippet: the white space at both ends is removed
RECURSIVE StripLeft(_)
StripLeft(txt) ==
    IF txt # <<>> /\ txt[1] = " " THEN StripLeft(Tail(txt)) ELSE txt
Strip(txt) == Reverse(StripLeft(Reverse(StripLeft(txt))))

\* LexLiteral(lit.value) and LexRegex(snippet.value.strip()); __eq__ compares
\* the class and the text
LexLiteral(txt) == [kind |-> "literal", text |-> txt]
LexRegex(txt) == [kind |-> "regex", text |-> txt]

\* the items of a right side as the lexer of the specification delivers them:
\* an ID, a quoted literal (QL) or a snippet in braces
ItemPool ==
    {[symbol |-> "ID", value |-> <<"x">>]}
        \cup {[symbol |-> "QL", value |-> v] : v \in {<<"a">>, <<"b">>, <<" ", "a">>}}
        \cup {[symbol |-> "SNIPPET", value |-> v] :
                 v \in {<<"a">>, <<"b">>, <<" ", "a">>, <<"a", " ">>}}

\* the token _named_item_lit and _named_item_snippet make of an item
TokenOf(item) ==
    IF item.symbol = "QL" THEN LexLiteral(item.value) ELSE LexRegex(Strip(item.value))

\* _lex_rhs without the test of tok_id: every inline token gets a new id
LexRhsAlwaysNew(tokens, rhs) ==
    [tokens |-> [t \in DOMAIN tokens \cup {rhs} |-> IF t = rhs THEN Cardinality(DOMAIN tokens)
                                                    ELSE tokens[t]],
     tok_id |-> Cardinality(DOMAIN tokens)]

\* _lex_rhs: the dict after the call and the tok_id returned
LexRhs(tokens, rhs) ==
    IF rhs \in DOMAIN tokens THEN [tokens |-> tokens, tok_id |-> tokens[rhs]]
    ELSE [tokens |-> [t \in DOMAIN tokens \cup {rhs} |->
                         IF t = rhs THEN Cardinality(DOMAIN tokens) ELSE tokens[t]],
          tok_id |-> Cardinality(DOMAIN tokens)]

\* sorted(self._implicit_tokens.iteritems(), key=lambda x: x[1]): the tokens
\* by increasing id.  The ids of a dict that _lex_rhs fills are distinct.
RECURSIVE SortedById(_)
SortedById(tokens) ==
    IF DOMAIN tokens = {} THEN <<>>
    ELSE LET t == CHOOSE t \in DOMAIN tokens : \A u \in DOMAIN tokens : tokens[t] <= tokens[u]
         IN <<t>> \o SortedById([u \in DOMAIN tokens \ {t} |-> tokens[u]])

\* the rule statement being parsed and the item the parser reduces next
CurrentRule == Len(pg.rules) + 1
Parsing == CurrentRule <= Len(limeSpec)

\* rhs_list ::= rhs_list named_item: _named_item, _named_item_lit or
\* _named_item_snippet, then _rhs_list_append
NamedItem ==
    /\ Parsing
    /\ Len(rhs_list) < Len(limeSpec[CurrentRule])
    /\ LET item == limeSpec[CurrentRule][Len(rhs_list) + 1]
       IN IF item.symbol = "ID"
          THEN /\ rhs_list' = Append(rhs_list, item.value)
               /\ UNCHANGED implicit_tokens
          ELSE LET res == LexRhs(implicit_tokens, TokenOf(item))
               IN /\ rhs_list' = Append(rhs_list, res.tok_id)
                  /\ implicit_tokens' = res.tokens
    /\ UNCHANGED <<limeSpec, pg, tokKinds, discKinds, fasTags, members, acc, pos, pcT,
                   tagError, faVars, lrVars, limeVars, parseVars, regexVars>>

\* grammar ::= grammar rule_stmt: _make_rule and _grammar_rule; the next
\* rule statement starts with _rhs_list_start
GrammarRule ==
    /\ Parsing
    /\ Len(rhs_list) = Len(limeSpec[CurrentRule])
    /\ pg' = [rules |-> Append(pg.rules, rhs_list), has_tokens |-> TRUE,
              tokens |-> SortedById(implicit_tokens)]
    /\ rhs_list' = <<>>
    /\ UNCHANGED <<limeSpec, implicit_tokens, tokKinds, discKinds, fasTags, members, acc,
                   pos, pcT, tagError, faVars, lrVars, limeVars, parseVars, regexVars>>

\* parse_lime_grammar: a new LimeGrammar; _grammar_empty sets no tokens
InitInline ==
    /\ limeSpec \in StringsUpTo(StringsUpTo(ItemPool, MaxItems), MaxSpecRules)
    /\ implicit_tokens = <<>>
    /\ pg = [rules |-> <<>>, has_tokens |-> FALSE, tokens |-> <<>>]
    /\ rhs_list = <<>>
    /\ tokKinds = <<>> /\ discKinds = <<>> /\ fasTags = <<>> /\ members = <<>>
    /\ acc = [token_id |-> -1, prio |-> -1, tokens |-> {}] /\ pos = 0
    /\ pcT = "idle" /\ tagError = "none"
    /\ IdleFA
    /\ IdleLR
    /\ IdleLime
    /\ IdleParse
    /\ IdleRegex

NextInline ==
    \/ NamedItem
    \/ GrammarRule

SpecInline == InitInline /\ [][NextInline]_vars

\* the right sides parsed so far, the one under way last, and the inline
\* occurrences in them: the item and what the rule holds for it
RightSides == pg.rules \o (IF Parsing THEN <<rhs_list>> ELSE <<>>)
Occurrences ==
    {<<r, i>> \in (1..Len(limeSpec)) \X (1..MaxItems) :
        /\ r <= Len(RightSides)
        /\ i <= Len(RightSides[r])
        /\ limeSpec[r][i].symbol # "ID"}
\* the kind and the text of an inline token: the quoted text of a literal,
\* the regex of a snippet, which is the snippet without the white space
\* around it
KindOf(o) == limeSpec[o[1]][o[2]].symbol
TextOf(o) ==
    IF KindOf(o) = "SNIPPET" THEN Strip(limeSpec[o[1]][o[2]].value)
    ELSE limeSpec[o[1]][o[2]].value
IdOf(o) == RightSides[o[1]][o[2]]
Before(o1, o2) == o1[1] < o2[1] \/ (o1[1] = o2[1] /\ o1[2] < o2[2])
\* the occurrence is the first of its token
IsFirst(o) ==
    \A o1 \in Occurrences :
        Before(o1, o) => ~(KindOf(o1) = KindOf(o) /\ TextOf(o1) = TextOf(o))

\* C24: two inline tokens have the same id exactly if they are of the same
\* kind and have the same text; the ids are 0, 1, 2, ... in the order of the
\* first occurrences; after a rule is added g.tokens[i] is the token with
\* the id i.
C24_InlineTokenIds ==
    /\ \A o1, o2 \in Occurrences :
          (IdOf(o1) = IdOf(o2)) <=> (KindOf(o1) = KindOf(o2) /\ TextOf(o1) = TextOf(o2))
    /\ \A o \in Occurrences :
          IsFirst(o) =>
              IdOf(o) = Cardinality({o1 \in Occurrences : IsFirst(o1) /\ Before(o1, o)})
    /\ (pg.has_tokens /\ rhs_list = <<>>) =>
          /\ Len(pg.tokens) = Cardinality(DOMAIN implicit_tokens)
          /\ \A i \in 0..(Len(pg.tokens) - 1) :
                /\ implicit_tokens[pg.tokens[i + 1]] = i
                /\ \E o \in Occurrences :
                      /\ IdOf(o) = i
                      /\ pg.tokens[i + 1].text = TextOf(o)
                      /\ (pg.tokens[i + 1].kind = "literal") <=> (KindOf(o) = "QL")

\* two rules are added, the second repeats a token of the first and has a
\* new one, and a snippet with white space around it is among them
C24_Witness ==
    /\ Len(pg.rules) = 2
    /\ Len(pg.tokens) = 3
    /\ \E o1, o2 \in Occurrences :
          /\ o1[1] = 1 /\ o2[1] = 2
          /\ IdOf(o1) = IdOf(o2)
          /\ limeSpec[o1[1]][o1[2]].value # limeSpec[o2[1]][o2[2]].value


-----------------------------------------------------------------------------
(* first.py: the loop of First.__init__ ends.                              *)

\* C25: the construction of the table ends for every grammar and k; a pass
\* only adds words to the entries, and the loop stops after the first pass
\* in which no entry grows.
C25_FirstTerminates ==
    /\ <>(pcL \in {"table_done", "invalid_grammar"})
    /\ [][pcL = "first" =>
            /\ \A nt \in DOMAIN table : table[nt] \subseteq table'[nt]
            /\ (pcL' = "table_done") <=> (table' = table)]_vars

\* the loop has ended with an entry of several words, the work of more than
\* one pass
C25_Witness ==
    /\ pcL = "table_done"
    /\ k >= 1
    /\ \E nt \in DOMAIN table : Cardinality(table[nt]) >= 3


-----------------------------------------------------------------------------
(* lrparser.py: the state list after the loop that builds it.              *)

\* the loop `while i < len(states)` has ended
StatesBuilt == pcL \in {"actions", "done", "conflict", "assert_failed"}

\* { A -> alpha X . beta, la | A -> alpha . X beta, la in the items of st }
Advanced(st, X) ==
    {Item(it.rule, it.index + 1, it.lookahead) :
        it \in {x \in Range(st.itemlist) :
                   x.index < Len(x.rule.right) /\ x.rule.right[x.index + 1] = X}}

\* C26: no two states have the same kernel; goto[X] of a state is defined
\* exactly for the symbols X that stand after the dot of an item of the
\* state's closure, and it is the index of the state whose kernel is the
\* set of these items with the dot moved over X.
C26_KernelsAndGoto ==
    StatesBuilt =>
        /\ \A i, j \in DOMAIN states : states[i].kernel = states[j].kernel => i = j
        /\ \A i \in DOMAIN states :
              /\ \A X \in GrammarSymbols(AugGrammar) :
                    (X \in DOMAIN states[i].goto) <=> (Advanced(states[i], X) # {})
              /\ \A X \in DOMAIN states[i].goto :
                    /\ states[i].goto[X] \in 0..(Len(states) - 1)
                    /\ StateAt(states, states[i].goto[X]).kernel = Advanced(states[i], X)
                    /\ X \in GrammarSymbols(AugGrammar)

\* a transition leads to a state that was there before: its kernel was
\* found in state_kernel_map
C26_Witness ==
    /\ StatesBuilt
    /\ Len(states) >= 3
    /\ \E i \in DOMAIN states : \E X \in DOMAIN states[i].goto :
          LET t == StateAt(states, states[i].goto[X])
          IN t.parent_id # i - 1 \/ t.parent_symbol # X

\* the number of parent steps from the state id to state 0, NoState if
\* more than `fuel` steps do not reach it
RECURSIVE ParentSteps(_, _, _)
ParentSteps(sts, id, fuel) ==
    IF id = 0 THEN 0
    ELSE IF fuel = 0 \/ id \notin 1..(Len(sts) - 1) THEN NoState
    ELSE LET rest == ParentSteps(sts, StateAt(sts, id).parent_id, fuel - 1)
         IN IF rest = NoState THEN NoState ELSE rest + 1

\* C30: state 0 has no parent; every other state i has a parent_id smaller
\* than i and a parent_symbol with states[parent_id].goto[parent_symbol] = i;
\* the parent pointers lead from every state to state 0.
C30_ParentChain ==
    StatesBuilt =>
        /\ states[1].parent_id = NoState
        /\ states[1].parent_symbol = NoSymbol
        /\ \A i \in 1..(Len(states) - 1) :
              LET st == StateAt(states, i)
              IN /\ st.parent_id \in 0..(i - 1)
                 /\ st.parent_symbol \in DOMAIN StateAt(states, st.parent_id).goto
                 /\ StateAt(states, st.parent_id).goto[st.parent_symbol] = i
                 /\ ParentSteps(states, i, Len(states)) \in 1..i

\* a state two parent steps away from state 0 whose parent is not the state
\* before it in the list
C30_Witness ==
    /\ StatesBuilt
    /\ \E i \in 1..(Len(states) - 1) :
          /\ ParentSteps(states, i, Len(states)) >= 2
          /\ StateAt(states, i).parent_id < i - 1


-----------------------------------------------------------------------------
(* fa.py, lime_grammar.py: the accept of a DFA state and the order in which *)
(* reduce visits the NFA states.                                           *)

\* reduce(precombine, tags): [ok, tag], not ok where combine_accept_labels
\* raises
RECURSIVE ReduceTags(_, _, _)
ReduceTags(tags, i, sofar) ==
    IF i > Len(tags) THEN [ok |-> TRUE, tag |-> sofar]
    ELSE LET res == PrecombineTags(sofar, tags[i])
         IN IF res.ok THEN ReduceTags(tags, i + 1, res.tag) ELSE res

\* the outcome for the accepts of `members` visited in the order ord
OutcomeIn(ord) == ReduceTags([i \in DOMAIN ord |-> members[ord[i]]], 2, members[ord[1]])

\* reduce has ended for the DFA state: with a tag or with an exception
Combined == pcT \in {"done", "error"}

\* C27: the outcome of combining the accepts of the NFA states of a DFA state
\* is the same in every visiting order: the same tag, or a conflict in all
\* orders.
C27_OrderIndependent ==
    Combined =>
        \A ord \in Perms(DOMAIN members) :
            IF pcT = "error" THEN ~OutcomeIn(ord).ok
            ELSE OutcomeIn(ord).ok /\ OutcomeIn(ord).tag = acc

\* three accepts of distinct token ids, two of priority 0 and one of
\* priority 1, combined without an exception
C27_Witness ==
    /\ pcT = "done"
    /\ Len(members) = 3
    /\ \A i \in DOMAIN members : members[i] # NoTag
    /\ \A i, j \in DOMAIN members : i # j => members[i].token_id # members[j].token_id
    /\ Cardinality({i \in DOMAIN members : members[i].prio = 0}) = 2
    /\ Cardinality({i \in DOMAIN members : members[i].prio = 1}) = 1

\* what does hold: when no order raises, every order gives the same tag
C27_SameTagWithoutConflict ==
    (pcT = "done" /\ \A ord \in Perms(DOMAIN members) : OutcomeIn(ord).ok) =>
        \A ord \in Perms(DOMAIN members) : OutcomeIn(ord).tag = acc


-----------------------------------------------------------------------------
(* lrparser.py: parse with an explicit root.                               *)

MaxRootParseRules == 1  \* rules of a grammar parsed with an explicit root
MaxParseRoot == 2       \* symbols of such a root

InitRootParse ==
    /\ g \in {gr \in Grammars : Len(gr) <= MaxRootParseRules}
    /\ k \in 0..MaxK
    /\ rootArg \in {[given |-> TRUE, syms |-> w] : w \in Words(SymbolPool, MaxParseRoot)}
                       \cup {NoRootArg}
    /\ pcL = "start"
    /\ table = <<>>
    /\ states = <<>>
    /\ si = 0
    /\ todo = {}
    /\ accepting = NoState
    /\ lrError = NoError
    /\ sentence = <<>>
    /\ taken = 0
    /\ lookaheadBuf = <<>>
    /\ stack = <<>>
    /\ token_counter = 0
    /\ pcP = "waiting"
    /\ errToken = NoToken
    /\ asts = <<>>
    /\ reductions = <<>>
    /\ IdleFA
    /\ IdleTag
    /\ IdleLime
    /\ IdleRegex

SpecRootParse == InitRootParse /\ [][NextParse]_vars

\* parse is in its loop with the accepting state on top of the stack, no
\* token left and a shift as the action: the next step is
\* `assert len(asts) == 1`
AtAcceptAssertion ==
    /\ pcP = "running"
    /\ stack[Len(stack)] = accepting
    /\ taken = Len(sentence)
    /\ lookaheadBuf = <<>>
    /\ <<>> \in DOMAIN StateAt(states, accepting).action
    /\ StateAt(states, accepting).action[<<>>] = ShiftAction

\* C28: throughout parse the state stack is one longer than the value
\* stack, and at the end of the input in the accepting state the value stack
\* holds exactly one value, for every root make_lrparser accepts.
C28_OneValueAtAccept ==
    /\ pcP \notin {"waiting", "idle"} => Len(stack) = Len(asts) + 1
    /\ AtAcceptAssertion => Len(asts) = 1

\* the assertion is reached with a root of two symbols
C28_Witness ==
    /\ AtAcceptAssertion
    /\ rootArg.given
    /\ Len(rootArg.syms) = 2

\* what does hold: the stacks are aligned, and with a root of one symbol
\* (the default root is one) the assertion holds
C28_OneValueForOneRootSymbol ==
    /\ pcP \notin {"waiting", "idle"} => Len(stack) = Len(asts) + 1
    /\ (AtAcceptAssertion /\ Len(Root) = 1) => Len(asts) = 1
    /\ (AtAcceptAssertion /\ Len(Root) # 1) => Len(asts) = Len(Root)


(***************************************************************************)
(* lime_grammar.py: DfaEngine.  The engine walks a DFA over the text and   *)
(* hands out one token per resumption of the generator `tokens`.  The DFA  *)
(* and the function `extract` are arguments of the constructor: every DFA  *)
(* of NumEngineStates states over EngineChars is tried, with the default   *)
(* extract (the builtin id), the one _lexparse gives (x.token_id) and one  *)
(* that returns the accept itself.  State 1 is the initial state.          *)
(***************************************************************************)
NumEngineStates == 2
MaxEngineText == 2
EngineChars == {"a", "b"}
EngineStates == 1..NumEngineStates
\* the token ids the accepting states carry
EngineTags == {1}

\* the outedges of a state whose character c leads to to[c] (0: no edge)
EdgesTo(to) ==
    LET all == [t \in EngineStates |->
                    [target |-> t, label |-> {c \in EngineChars : to[c] = t}]]
    IN  SelectSeq(all, LAMBDA e : e.label # {})

EngineDfas ==
    { [out |-> [st \in EngineStates |-> EdgesTo(to[st])], accept |-> a] :
        to \in [EngineStates -> [EngineChars -> 0..NumEngineStates]],
        a \in [EngineStates -> {NoAccept} \cup EngineTags] }

Extracts == {"id", "token_id", "same"}

\* for target, label in state.outedges: if ch in label: ... break
FirstEdge(dfa, state, ch) ==
    LET hits == SelectSeq(dfa.out[state], LAMBDA e : ch \in e.label)
    IN  IF hits = <<>> THEN 0 ELSE hits[1].target

\* the loop of _get_token, from character i of s on, the engine being in `state`
RECURSIVE WalkDfa(_, _, _, _)
WalkDfa(dfa, state, s, i) ==
    IF i > Len(s)
    THEN [accept |-> dfa.accept[state], content |-> s, tail |-> <<>>]
    ELSE LET target == FirstEdge(dfa, state, s[i])
         IN  IF target = 0
             THEN [accept |-> dfa.accept[state], content |-> SubSeq(s, 1, i - 1),
                   tail |-> SubSeq(s, i, Len(s))]
             ELSE WalkDfa(dfa, target, s, i + 1)

\* self._extract(state.accept): id(None) is an address, never None;
\* None.token_id raises AttributeError
Extract(kind, accept) ==
    CASE kind = "id" -> [raised |-> FALSE, isNone |-> FALSE, tok |-> "address"]
      [] kind = "token_id" ->
            IF accept = NoAccept
            THEN [raised |-> TRUE, isNone |-> FALSE, tok |-> "AttributeError"]
            ELSE [raised |-> FALSE, isNone |-> FALSE, tok |-> accept]
      [] OTHER -> [raised |-> FALSE, isNone |-> accept = NoAccept, tok |-> accept]

\* one resumption of the generator: the test of the while, _get_token, and
\* the raise or the yield followed by s = tail
TokensNext ==
    /\ pcE = "running"
    /\ IF remaining = <<>>
       THEN /\ pcE' = "StopIteration"
            /\ UNCHANGED <<remaining, lastTok>>
       ELSE LET got == WalkDfa(engineDfa, 1, remaining, 1)
                tok == Extract(extract, got.accept)
            IN  IF tok.raised
                THEN /\ pcE' = tok.tok
                     /\ UNCHANGED <<remaining, lastTok>>
                ELSE IF tok.isNone
                THEN /\ pcE' = "LimeLexingError"
                     /\ UNCHANGED <<remaining, lastTok>>
                ELSE /\ lastTok' = [yielded |-> TRUE, tok |-> tok.tok,
                                    content |-> got.content]
                     /\ remaining' = got.tail
                     /\ pcE' = "running"
    /\ UNCHANGED <<engineDfa, extract, gTokens, gDiscards, context_lexer, fas,
                   discard_id, term_lists, lexer_id, lexers, pcM, text, lexed, result,
                   faVars, lrVars, tagVars, parseVars, regexVars>>

InitEngine ==
    /\ engineDfa \in EngineDfas
    /\ extract \in Extracts
    /\ remaining \in StringsUpTo(EngineChars, MaxEngineText)
    /\ lastTok = [yielded |-> FALSE]
    /\ pcE = "running"
    /\ gTokens = <<>> /\ gDiscards = <<>> /\ context_lexer = FALSE /\ fas = <<>>
    /\ discard_id = 0 /\ term_lists = <<>> /\ lexer_id = <<>> /\ lexers = <<>>
    /\ pcM = "idle" /\ text = <<>> /\ lexed = <<>> /\ result = "none"
    /\ IdleFA
    /\ IdleLR
    /\ IdleTag
    /\ IdleParse
    /\ IdleRegex

NextEngine == TokensNext

\* the caller iterates over the generator until it ends or raises
SpecEngine == InitEngine /\ [][NextEngine]_vars /\ WF_vars(NextEngine)

\* the state the DFA is in after the first n characters of s, 0 if it has no such run
RECURSIVE StateAfter(_, _, _, _)
StateAfter(dfa, state, s, n) ==
    IF n = 0 THEN state
    ELSE LET before == StateAfter(dfa, state, s, n - 1)
         IN  IF before = 0 THEN 0 ELSE FirstEdge(dfa, before, s[n])

\* no non-empty prefix of s is a token of the DFA
NoTokenMatches(dfa, s) ==
    \A n \in 1..Len(s) :
        LET st == StateAfter(dfa, 1, s, n)
        IN  st = 0 \/ dfa.accept[st] = NoAccept

TokensEnded == pcE # "running"
YieldConsumes == (pcE = "running" /\ pcE' = "running") => Len(remaining') < Len(remaining)
NoMatchRaises ==
    (pcE = "running" /\ remaining # <<>> /\ NoTokenMatches(engineDfa, remaining))
        => pcE' = "LimeLexingError"

\* C29: DfaEngine.tokens terminates on every finite text: the generator
\* ends or raises, every token it yields consumes at least one character of
\* the remaining text, and where no token matches it raises
\* LimeLexingError instead of yielding, also for a DFA whose initial state
\* is accepting.
C29_TokensTerminates ==
    /\ <>TokensEnded
    /\ [][YieldConsumes]_vars
    /\ [][NoMatchRaises]_vars

\* a DFA whose initial state is accepting, at a character the initial state
\* has no edge for, after a token has been yielded
C29_Witness ==
    /\ pcE = "running"
    /\ lastTok.yielded
    /\ remaining # <<>>
    /\ engineDfa.accept[1] # NoAccept
    /\ FirstEdge(engineDfa, 1, remaining[1]) = 0

PlainEngine == extract = "same" /\ engineDfa.accept[1] = NoAccept

\* C29, for an extract that returns None for None and a DFA whose initial
\* state is not accepting: the generator ends or raises, every token it
\* yields consumes at least one character, and where no token matches it
\* raises LimeLexingError.
C29_TerminatesWithoutEmptyToken ==
    /\ PlainEngine => <>TokensEnded
    /\ [][PlainEngine => YieldConsumes]_vars
    /\ [][PlainEngine => NoMatchRaises]_vars

=============================================================================
